---- MODULE Spec2Model ----
(***************************************************************************)
(* SqlJsSaver (src/main/checkpointer/sqljs-saver.ts): a checkpoint store   *)
(* kept in an in-memory SQL engine (sql.js) whose whole image is exported  *)
(* to one backing file by a debounced timer, by flush() and by close().    *)
(*                                                                         *)
(* The store object's fields are the variables db, isSetup, dirty and      *)
(* saveTimer; file and backup are the backing file and the path an         *)
(* oversized file is renamed to.  The methods are operators over a record  *)
(* of those fields (Self), so that a method calling another (every public  *)
(* method awaits initialize(), every mutation ends in saveToDisk()) is     *)
(* modelled as the composition the code performs.                          *)
(***************************************************************************)
EXTENDS Integers, Sequences, FiniteSets, TLC

VARIABLES
  db,         \* this.db: None, or the engine image [schema, checkpoints, writes]
  isSetup,    \* this.isSetup
  dirty,      \* this.dirty
  saveTimer,  \* this.saveTimer: Null, "armed" (callback pending), "fired" (stale handle)
  timers,     \* the number of setTimeout callbacks of the store the event loop holds
  file,       \* the file at this.dbPath: Absent, or an exported engine image
  backup,     \* the file at dbPath + '.bak.<now>': Absent, or a renamed image
  calls,      \* the calls in flight: per caller, Idle or the call and where it stands
  ret,        \* the call completed by the latest step: its arguments and its result
  activeRuns,     \* agent handlers' activeRuns: per thread, NoRun or a run's controller
  runs,           \* the handler invocations: thread, handler, where it stands, aborted
  checkpointers,  \* runtime's checkpointers: per thread, NoSaver or a SqlJsSaver
  getters,        \* getCheckpointer / closeCheckpointer calls in flight
  savers          \* the SqlJsSaver objects constructed: thread, and how far they got

\* The state of the main process around the stores.
app == <<activeRuns, runs, checkpointers, getters, savers>>

vars ==
  <<db, isSetup, dirty, saveTimer, timers, file, backup, calls, ret, app>>

Null == "null"               \* JS null / undefined, where a string or nothing stands
None == [none |-> TRUE]      \* JS null / undefined, where an object or nothing stands
Absent == [absent |-> TRUE]  \* existsSync(path) = false

(***************************************************************************)
(* Text values are TLA+ strings ("" is the default namespace).  The engine *)
(* orders TEXT columns by the BINARY collation: bytewise over the UTF-8    *)
(* encoding, a proper prefix sorting first.  Utf8 gives the encoding of    *)
(* the identifiers the model draws from.                                   *)
(***************************************************************************)
Utf8(s) ==
  CASE s = "" -> <<>>
    [] s = "B" -> <<66>>
    [] s = "a" -> <<97>>
    [] s = "ab" -> <<97, 98>>
    [] s = "b" -> <<98>>
    [] s = "c" -> <<99>>
    [] s = "t1" -> <<116, 49>>
    [] s = "t10" -> <<116, 49, 48>>
    [] s = "t2" -> <<116, 50>>

RECURSIVE LexLess(_, _)
LexLess(a, b) ==
  IF a = <<>> THEN b # <<>>
  ELSE IF b = <<>> THEN FALSE
  ELSE IF Head(a) # Head(b) THEN Head(a) < Head(b)
  ELSE LexLess(Tail(a), Tail(b))

TextLess(x, y) == LexLess(Utf8(x), Utf8(y))

(***************************************************************************)
(* Serialization adapter (this.serde, the saver's JsonPlusSerializer       *)
(* default).  A JS value is an object, modelled [kind |-> "obj", ...], or  *)
(* a Uint8Array, modelled [kind |-> "u8", ...].  dumpsTyped gives a        *)
(* Uint8Array the tag "bytes" and passes it through; anything else gets    *)
(* the tag "json" and its JSON text.  loadsTyped inverts by the tag.       *)
(***************************************************************************)
Stringify(v) == [json |-> v]
Parse(text) == text.json

dumpsTyped(v) ==
  IF v.kind = "u8" THEN <<"bytes", v>> ELSE <<"json", Stringify(v)>>

loadsTyped_ignoreTag(type, data) == Parse(data)

loadsTyped(type, data) ==
  IF type = "bytes" THEN data ELSE Parse(data)

\* Byte length of a serialized value, as stored in the engine image.
ByteLength(data) == IF "json" \in DOMAIN data THEN data.json.bytes ELSE data.bytes

(***************************************************************************)
(* The embedded engine.  A table is the sequence of its rows in rowid      *)
(* order; each table has the unique index of its PRIMARY KEY.  INSERT OR   *)
(* REPLACE deletes the row holding the new row's key, if any, and appends  *)
(* the new row with a fresh, largest rowid.                                *)
(***************************************************************************)
EmptyDb == [schema |-> FALSE, checkpoints |-> <<>>, writes |-> <<>>]

CreateTables(e) == [e EXCEPT !.schema = TRUE]

CheckpointKey(r) == <<r.thread_id, r.checkpoint_ns, r.checkpoint_id>>

WriteKey(r) == <<r.thread_id, r.checkpoint_ns, r.checkpoint_id, r.task_id, r.idx>>

Rows(table) == {table[i] : i \in DOMAIN table}

InsertCheckpoint_noReplace(e, row) ==
  [e EXCEPT !.checkpoints = Append(@, row)]

InsertCheckpoint_truncate(e, row) == [e EXCEPT !.checkpoints = <<row>>]

InsertOrReplaceCheckpoint_cascade(e, row) ==
  [e EXCEPT !.checkpoints =
     Append(SelectSeq(@, LAMBDA r : CheckpointKey(r) # CheckpointKey(row)), row),
            !.writes =
     SelectSeq(@, LAMBDA w :
       <<w.thread_id, w.checkpoint_ns, w.checkpoint_id>> # CheckpointKey(row))]

InsertOrReplaceCheckpoint(e, row) ==
  [e EXCEPT !.checkpoints =
     Append(SelectSeq(@, LAMBDA r : CheckpointKey(r) # CheckpointKey(row)), row)]

InsertOrReplaceWrite(e, row) ==
  [e EXCEPT !.writes =
     Append(SelectSeq(@, LAMBDA r : WriteKey(r) # WriteKey(row)), row)]

\* DELETE FROM checkpoints WHERE thread_id = ?
DeleteCheckpointsOfThread(e, threadId) ==
  [e EXCEPT !.checkpoints = SelectSeq(@, LAMBDA r : r.thread_id # threadId)]

\* DELETE FROM writes WHERE thread_id = ?
DeleteWritesOfThread(e, threadId) ==
  [e EXCEPT !.writes = SelectSeq(@, LAMBDA r : r.thread_id # threadId)]

\* A comparison with an unbound or NULL parameter is never true.
SqlEq(col, param) == param # Null /\ col = param

\* Ascending order of the writes primary-key index within one checkpoint.
WriteBefore(x, y) ==
  \/ TextLess(x.task_id, y.task_id)
  \/ x.task_id = y.task_id /\ x.idx < y.idx

RECURSIVE IndexOrder(_)
IndexOrder(S) ==
  IF S = {} THEN <<>>
  ELSE LET m == CHOOSE x \in S : \A y \in S \ {x} : ~WriteBefore(y, x)
       IN  <<m>> \o IndexOrder(S \ {m})

\* ORDER BY checkpoint_id DESC
RECURSIVE OrderByIdDesc(_)
OrderByIdDesc(S) ==
  IF S = {} THEN <<>>
  ELSE LET m == CHOOSE x \in S :
                  \A y \in S \ {x} : ~TextLess(x.checkpoint_id, y.checkpoint_id)
       IN  <<m>> \o OrderByIdDesc(S \ {m})

OrderByIdAsc(S) ==
  LET d == OrderByIdDesc(S) IN [i \in DOMAIN d |-> d[Len(d) + 1 - i]]

Limit(rows, n) == IF Len(rows) <= n THEN rows ELSE SubSeq(rows, 1, n)

\* SELECT ... FROM writes WHERE thread_id = ? AND checkpoint_ns = ? AND
\* checkpoint_id = ?  (no ORDER BY: the engine searches the primary-key index,
\* whose first three columns the WHERE clause fixes, and returns index order)
SelectWrites_rowidOrder(e, t, ns, id) ==
  SelectSeq(e.writes, LAMBDA r : /\ SqlEq(r.thread_id, t)
                                 /\ SqlEq(r.checkpoint_ns, ns)
                                 /\ SqlEq(r.checkpoint_id, id))

SelectWrites_anyCheckpoint(e, t, ns, id) ==
  IndexOrder({r \in Rows(e.writes) : SqlEq(r.thread_id, t) /\ SqlEq(r.checkpoint_ns, ns)})

SelectWrites(e, t, ns, id) ==
  IndexOrder({r \in Rows(e.writes) : /\ SqlEq(r.thread_id, t)
                                      /\ SqlEq(r.checkpoint_ns, ns)
                                      /\ SqlEq(r.checkpoint_id, id)})

\* SELECT ... FROM checkpoints WHERE thread_id = ? AND checkpoint_ns = ? AND
\* checkpoint_id = ?
SelectCheckpoint(e, t, ns, id) ==
  OrderByIdDesc({r \in Rows(e.checkpoints) : /\ SqlEq(r.thread_id, t)
                                              /\ SqlEq(r.checkpoint_ns, ns)
                                              /\ SqlEq(r.checkpoint_id, id)})

\* SELECT ... FROM checkpoints WHERE thread_id = ? AND checkpoint_ns = ?
\* ORDER BY checkpoint_id DESC LIMIT 1
SelectLatest_oldest(e, t, ns) ==
  Limit(OrderByIdAsc({r \in Rows(e.checkpoints) :
                        SqlEq(r.thread_id, t) /\ SqlEq(r.checkpoint_ns, ns)}), 1)

SelectLatest(e, t, ns) ==
  Limit(OrderByIdDesc({r \in Rows(e.checkpoints) :
                         SqlEq(r.thread_id, t) /\ SqlEq(r.checkpoint_ns, ns)}), 1)

\* The size of an exported image: the bytes of the serialized values it stores
\* (page and record overhead left out).
RECURSIVE CheckpointBytes(_)
CheckpointBytes(rows) ==
  IF rows = <<>> THEN 0
  ELSE ByteLength(Head(rows).checkpoint) + ByteLength(Head(rows).metadata)
         + CheckpointBytes(Tail(rows))

RECURSIVE WriteBytes(_)
WriteBytes(rows) ==
  IF rows = <<>> THEN 0 ELSE ByteLength(Head(rows).value) + WriteBytes(Tail(rows))

ImageSize(img) == CheckpointBytes(img.checkpoints) + WriteBytes(img.writes)

(***************************************************************************)
(* The store object.  Self is the record of its fields and of the two      *)
(* files it touches; every method maps such a record to the record after   *)
(* the call, or to [s |-> record after, out |-> result].                   *)
(***************************************************************************)
Self ==
  [db |-> db, isSetup |-> isSetup, dirty |-> dirty, saveTimer |-> saveTimer,
   timers |-> timers, file |-> file, backup |-> backup]

MAX_DB_SIZE == 100 * 1024 * 1024

Truthy(x) == x # Null /\ x # ""

Throw(s, message) == [s |-> s, out |-> [error |-> message]]

Threw(out) == "error" \in DOMAIN out

\* clearTimeout(this.saveTimer): the callback of the handle, if the event
\* loop still holds it, is dropped; the number of callbacks left.
clearTimeout(s) ==
  IF s.saveTimer = "armed" THEN s.timers - 1 ELSE s.timers

saveToDisk_noCancel(s) ==
  IF s.db = None THEN s
  ELSE [s EXCEPT !.dirty = TRUE, !.timers = @ + 1, !.saveTimer = "armed"]

\* saveToDisk(): mark dirty, cancel the pending timer, arm a new one.
saveToDisk(s) ==
  IF s.db = None THEN s
  ELSE [s EXCEPT !.dirty = TRUE, !.timers = clearTimeout(s) + 1, !.saveTimer = "armed"]

\* setup(): CREATE TABLE IF NOT EXISTS for both tables, once per store object.
setup(s) ==
  IF s.isSetup \/ s.db = None THEN s
  ELSE saveToDisk([s EXCEPT !.db = CreateTables(@), !.isSetup = TRUE])

\* initialize(): fs is what the file system lets the oversize path do:
\* "renamed" (renameSync succeeds), "unlinked" (it fails, unlinkSync
\* succeeds), "kept" (both fail).
initialize_alwaysFresh(s, fs) ==
  IF s.db # None THEN s ELSE setup([s EXCEPT !.db = EmptyDb])

\* initialize() from "existsSync(this.dbPath)" on: what runs once the awaited
\* initSqlJs() has resolved.
initializeLoad(s, fs) ==
  IF s.file # Absent
    THEN IF ImageSize(s.file) > MAX_DB_SIZE
           THEN setup([s EXCEPT !.db = EmptyDb,
                                !.file = IF fs = "kept" THEN @ ELSE Absent,
                                !.backup = IF fs = "renamed" THEN s.file ELSE @])
           ELSE setup([s EXCEPT !.db = s.file])
    ELSE setup([s EXCEPT !.db = EmptyDb])

initialize(s, fs) ==
  IF s.db # None THEN s ELSE initializeLoad(s, fs)

\* The timer callback armed by saveToDisk().
timerCallback(s) ==
  IF s.db # None /\ s.dirty THEN [s EXCEPT !.file = s.db, !.dirty = FALSE] ELSE s

timerCallbackThrows_clean(s) == [s EXCEPT !.dirty = FALSE]

\* The timer callback when writeFileSync throws: the export has run, the
\* assignment to dirty is not reached.
timerCallbackThrows(s) == s

\* A timeout expires and its callback runs: held says whether it is the one
\* this.saveTimer is the handle of.
timerExpiry(s, held) ==
  timerCallback([s EXCEPT !.timers = @ - 1,
                          !.saveTimer = IF held THEN "fired" ELSE @])

\* flush(): io is what writeFileSync does, "ok" or "EIO" (it throws).
flush_swallow(s, io) ==
  LET s1 == [s EXCEPT !.saveTimer = Null, !.timers = clearTimeout(s)]
  IN  IF s1.db # None /\ s1.dirty /\ io = "ok"
        THEN [s |-> [s1 EXCEPT !.file = s1.db, !.dirty = FALSE], out |-> [value |-> None]]
        ELSE [s |-> s1, out |-> [value |-> None]]

flush_keepTimer(s, io) ==
  IF s.db # None /\ s.dirty
    THEN IF io = "ok"
           THEN [s |-> [s EXCEPT !.file = s.db, !.dirty = FALSE], out |-> [value |-> None]]
           ELSE Throw(s, "EIO")
    ELSE [s |-> s, out |-> [value |-> None]]

flush_noWrite(s, io) ==
  [s |-> [s EXCEPT !.saveTimer = Null, !.timers = clearTimeout(s), !.dirty = FALSE],
   out |-> [value |-> None]]

flush(s, io) ==
  LET s1 == [s EXCEPT !.saveTimer = Null, !.timers = clearTimeout(s)]
  IN  IF s1.db # None /\ s1.dirty
        THEN IF io = "ok"
               THEN [s |-> [s1 EXCEPT !.file = s1.db, !.dirty = FALSE], out |-> [value |-> None]]
               ELSE Throw(s1, "EIO")
        ELSE [s |-> s1, out |-> [value |-> None]]

\* close() after its "await this.flush()": db.close() and this.db = null.
closeRelease(s) == [s EXCEPT !.db = None]

\* close(): flush(), then release the engine handle.
close(s, io) ==
  LET f == flush(s, io)
  IN  IF Threw(f.out) THEN f
      ELSE [s |-> [f.s EXCEPT !.db = None], out |-> [value |-> None]]

(***************************************************************************)
(* The repository methods, after their "await this.initialize()".  A       *)
(* reference (config.configurable) is [thread_id, checkpoint_ns,           *)
(* checkpoint_id], Null standing for a field left out; Null itself is a    *)
(* config without "configurable".  A checkpoint is a JS object carrying    *)
(* its own id: [kind |-> "obj", id |-> ..., body |-> ..., bytes |-> ...].  *)
(***************************************************************************)
NoRef == [thread_id |-> Null, checkpoint_ns |-> Null, checkpoint_id |-> Null]

Configurable(config) == IF config = None THEN NoRef ELSE config

\* a ?? b
Coalesce(a, b) == IF a = Null THEN b ELSE a

\* stmt.bind(params.filter((p) => p !== undefined)): the values left fill the
\* placeholders in order, and a placeholder left over stays NULL.
Bind(params) ==
  LET given == SelectSeq(params, LAMBDA p : p # Null)
  IN  [i \in DOMAIN params |-> IF i <= Len(given) THEN given[i] ELSE Null]

NoSuchTable == "no such table"

\* pendingWrites.push([write.task_id, write.channel, value])
Decoded(w) == <<w.task_id, w.channel, loadsTyped(Coalesce(w.type, "json"), w.value)>>

PendingWrites(e, row) ==
  LET ws == SelectWrites(e, row.thread_id, row.checkpoint_ns, row.checkpoint_id)
  IN  [i \in DOMAIN ws |-> Decoded(ws[i])]

ParentConfig_none(row) == None

ParentConfig(row) ==
  IF Truthy(row.parent_checkpoint_id)
    THEN [thread_id |-> row.thread_id, checkpoint_ns |-> row.checkpoint_ns,
          checkpoint_id |-> row.parent_checkpoint_id]
    ELSE None

RowConfig(row) ==
  [thread_id |-> row.thread_id, checkpoint_ns |-> row.checkpoint_ns,
   checkpoint_id |-> row.checkpoint_id]

\* The tuple getTuple() returns and list() yields for a row.
Tuple(row, config, pendingWrites) ==
  [checkpoint |-> loadsTyped(Coalesce(row.type, "json"), row.checkpoint),
   config |-> config,
   metadata |-> loadsTyped(Coalesce(row.type, "json"), row.metadata),
   parentConfig |-> ParentConfig(row),
   pendingWrites |-> pendingWrites]

getTupleRows_fallback(e, config) ==
  LET c == Configurable(config)
      checkpoint_ns == Coalesce(c.checkpoint_ns, "")
      params == Bind(<<c.thread_id, checkpoint_ns, c.checkpoint_id>>)
      exact == SelectCheckpoint(e, params[1], params[2], params[3])
  IN  IF Truthy(c.checkpoint_id) /\ exact # <<>> THEN exact
      ELSE SelectLatest(e, params[1], params[2])

\* getTuple()'s first statement: the row a reference selects, if any.
getTupleRows(e, config) ==
  LET c == Configurable(config)
      checkpoint_ns == Coalesce(c.checkpoint_ns, "")
      params == IF Truthy(c.checkpoint_id)
                  THEN Bind(<<c.thread_id, checkpoint_ns, c.checkpoint_id>>)
                  ELSE Bind(<<c.thread_id, checkpoint_ns>>)
  IN  IF Truthy(c.checkpoint_id)
        THEN SelectCheckpoint(e, params[1], params[2], params[3])
        ELSE SelectLatest(e, params[1], params[2])

getTupleConfig(config, row) ==
  IF Truthy(Configurable(config).checkpoint_id) THEN config ELSE RowConfig(row)

getTuple_saves(s, config) ==
  IF s.db = None THEN Throw(s, "Database not initialized")
  ELSE IF ~s.db.schema THEN Throw(s, NoSuchTable)
  ELSE
    LET rows == getTupleRows(s.db, config)
    IN  IF rows = <<>> THEN [s |-> saveToDisk(s), out |-> [value |-> None]]
        ELSE [s |-> saveToDisk(s),
              out |-> [value |-> Tuple(rows[1], getTupleConfig(config, rows[1]),
                                       PendingWrites(s.db, rows[1]))]]

getTuple(s, config) ==
  IF s.db = None THEN Throw(s, "Database not initialized")
  ELSE IF ~s.db.schema THEN Throw(s, NoSuchTable)
  ELSE
    LET rows == getTupleRows(s.db, config)
    IN  IF rows = <<>> THEN [s |-> s, out |-> [value |-> None]]
        ELSE [s |-> s,
              out |-> [value |-> Tuple(rows[1], getTupleConfig(config, rows[1]),
                                       PendingWrites(s.db, rows[1]))]]

\* WHERE thread_id = ? AND checkpoint_ns = ? [AND checkpoint_id < ?]
\* ORDER BY checkpoint_id DESC [LIMIT n]; options is [before |-> a config or
\* None], with a field limit when a limit is given.
ListRows_inclusive(e, thread_id, checkpoint_ns, options) ==
  LET before == Configurable(options.before).checkpoint_id
      found == OrderByIdDesc({r \in Rows(e.checkpoints) :
                 /\ r.thread_id = thread_id
                 /\ r.checkpoint_ns = checkpoint_ns
                 /\ Truthy(before) => ~TextLess(before, r.checkpoint_id)})
  IN  IF "limit" \in DOMAIN options /\ options.limit # 0
        THEN Limit(found, options.limit) ELSE found

ListRows(e, thread_id, checkpoint_ns, options) ==
  LET before == Configurable(options.before).checkpoint_id
      found == OrderByIdDesc({r \in Rows(e.checkpoints) :
                 /\ r.thread_id = thread_id
                 /\ r.checkpoint_ns = checkpoint_ns
                 /\ Truthy(before) => TextLess(r.checkpoint_id, before)})
  IN  IF "limit" \in DOMAIN options /\ options.limit # 0
        THEN Limit(found, options.limit) ELSE found

\* list(): the tuples the generator yields when it is drained.
list(s, config, options) ==
  IF s.db = None THEN Throw(s, "Database not initialized")
  ELSE IF ~s.db.schema THEN Throw(s, NoSuchTable)
  ELSE IF Configurable(config).thread_id = Null THEN Throw(s, "Wrong API use")
  ELSE
    LET c == Configurable(config)
        rows == ListRows(s.db, c.thread_id, Coalesce(c.checkpoint_ns, ""), options)
    IN  [s |-> s,
         out |-> [value |-> [i \in DOMAIN rows |->
                    Tuple(rows[i], RowConfig(rows[i]), PendingWrites(s.db, rows[i]))]]]

CheckpointRow_parentSelf(c, checkpoint, metadata) ==
  [thread_id |-> c.thread_id,
   checkpoint_ns |-> Coalesce(c.checkpoint_ns, ""),
   checkpoint_id |-> checkpoint.id,
   parent_checkpoint_id |-> checkpoint.id,
   type |-> dumpsTyped(checkpoint)[1],
   checkpoint |-> dumpsTyped(checkpoint)[2],
   metadata |-> dumpsTyped(metadata)[2]]

CheckpointRow_swapped(c, checkpoint, metadata) ==
  [thread_id |-> c.thread_id,
   checkpoint_ns |-> Coalesce(c.checkpoint_ns, ""),
   checkpoint_id |-> checkpoint.id,
   parent_checkpoint_id |-> c.checkpoint_id,
   type |-> dumpsTyped(checkpoint)[1],
   checkpoint |-> dumpsTyped(metadata)[2],
   metadata |-> dumpsTyped(checkpoint)[2]]

CheckpointRow_noNamespace(c, checkpoint, metadata) ==
  [thread_id |-> c.thread_id,
   checkpoint_ns |-> "",
   checkpoint_id |-> checkpoint.id,
   parent_checkpoint_id |-> c.checkpoint_id,
   type |-> dumpsTyped(checkpoint)[1],
   checkpoint |-> dumpsTyped(checkpoint)[2],
   metadata |-> dumpsTyped(metadata)[2]]

\* The row put() upserts.
CheckpointRow(c, checkpoint, metadata) ==
  [thread_id |-> c.thread_id,
   checkpoint_ns |-> Coalesce(c.checkpoint_ns, ""),
   checkpoint_id |-> checkpoint.id,
   parent_checkpoint_id |-> c.checkpoint_id,
   type |-> dumpsTyped(checkpoint)[1],
   checkpoint |-> dumpsTyped(checkpoint)[2],
   metadata |-> dumpsTyped(metadata)[2]]

TypeErrorNull == "TypeError: Cannot read properties of null"

putChecks_markDirty(s, config) ==
  IF s.db = None THEN Throw(s, "Database not initialized")
  ELSE IF config = None THEN Throw(saveToDisk(s), "Empty configuration supplied.")
  ELSE IF ~Truthy(config.thread_id)
    THEN Throw(saveToDisk(s),
               "Missing \"thread_id\" field in passed \"config.configurable\".")
  ELSE [s |-> s, out |-> [value |-> None]]

\* put() up to its "await Promise.all([dumpsTyped, dumpsTyped])".
putChecks(s, config) ==
  IF s.db = None THEN Throw(s, "Database not initialized")
  ELSE IF config = None THEN Throw(s, "Empty configuration supplied.")
  ELSE IF ~Truthy(config.thread_id)
    THEN Throw(s, "Missing \"thread_id\" field in passed \"config.configurable\".")
  ELSE [s |-> s, out |-> [value |-> None]]

putStore_noTypeCheck(s, config, checkpoint, metadata) ==
  IF s.db = None THEN Throw(s, TypeErrorNull)
  ELSE IF ~s.db.schema THEN Throw(s, NoSuchTable)
  ELSE [s |-> saveToDisk([s EXCEPT !.db =
                 InsertOrReplaceCheckpoint(@, CheckpointRow(config, checkpoint, metadata))]),
        out |-> [value |-> [thread_id |-> config.thread_id,
                            checkpoint_ns |-> Coalesce(config.checkpoint_ns, ""),
                            checkpoint_id |-> checkpoint.id]]]

\* put() from that await on: this.db is read again, unguarded.
putStore(s, config, checkpoint, metadata) ==
  IF dumpsTyped(checkpoint)[1] # dumpsTyped(metadata)[1]
    THEN Throw(s, "Failed to serialize checkpoint and metadata to the same type.")
  ELSE IF s.db = None THEN Throw(s, TypeErrorNull)
  ELSE IF ~s.db.schema THEN Throw(s, NoSuchTable)
  ELSE [s |-> saveToDisk([s EXCEPT !.db =
                 InsertOrReplaceCheckpoint(@, CheckpointRow(config, checkpoint, metadata))]),
        out |-> [value |-> [thread_id |-> config.thread_id,
                            checkpoint_ns |-> Coalesce(config.checkpoint_ns, ""),
                            checkpoint_id |-> checkpoint.id]]]

put(s, config, checkpoint, metadata) ==
  IF Threw(putChecks(s, config).out) THEN putChecks(s, config)
  ELSE putStore(s, config, checkpoint, metadata)

\* The row putWrites() upserts for writes[idx + 1] = <<channel, value>>.
WriteRow(c, write, taskId, idx) ==
  [thread_id |-> c.thread_id,
   checkpoint_ns |-> Coalesce(c.checkpoint_ns, ""),
   checkpoint_id |-> c.checkpoint_id,
   task_id |-> taskId,
   idx |-> idx,
   channel |-> write[1],
   type |-> dumpsTyped(write[2])[1],
   value |-> dumpsTyped(write[2])[2]]

RECURSIVE UpsertWrites_truncate(_, _, _, _, _)
UpsertWrites_truncate(e, c, writes, taskId, idx) ==
  IF idx >= Len(writes)
    THEN [e EXCEPT !.writes =
            SelectSeq(@, LAMBDA r :
              \/ r.task_id # taskId \/ r.idx < Len(writes)
              \/ r.thread_id # c.thread_id
              \/ r.checkpoint_ns # Coalesce(c.checkpoint_ns, "")
              \/ r.checkpoint_id # c.checkpoint_id)]
  ELSE UpsertWrites_truncate(
         InsertOrReplaceWrite(e, WriteRow(c, writes[idx + 1], taskId, idx)),
         c, writes, taskId, idx + 1)

\* for (let idx = 0; idx < writes.length; idx++) db.run(INSERT OR REPLACE ...)
RECURSIVE UpsertWrites(_, _, _, _, _)
UpsertWrites(e, c, writes, taskId, idx) ==
  IF idx >= Len(writes) THEN e
  ELSE UpsertWrites(InsertOrReplaceWrite(e, WriteRow(c, writes[idx + 1], taskId, idx)),
                    c, writes, taskId, idx + 1)

putWritesChecks_noCheckpointId(s, config) ==
  IF s.db = None THEN Throw(s, "Database not initialized")
  ELSE IF config = None THEN Throw(s, "Empty configuration supplied.")
  ELSE IF ~Truthy(config.thread_id)
    THEN Throw(s, "Missing thread_id field in config.configurable.")
  ELSE [s |-> s, out |-> [value |-> None]]

\* putWrites() up to its loop.
putWritesChecks(s, config) ==
  IF s.db = None THEN Throw(s, "Database not initialized")
  ELSE IF config = None THEN Throw(s, "Empty configuration supplied.")
  ELSE IF ~Truthy(config.thread_id)
    THEN Throw(s, "Missing thread_id field in config.configurable.")
  ELSE IF ~Truthy(config.checkpoint_id)
    THEN Throw(s, "Missing checkpoint_id field in config.configurable.")
  ELSE [s |-> s, out |-> [value |-> None]]

\* One turn of the loop, from its "await this.serde.dumpsTyped(write[1])" on:
\* this.db is read again, unguarded; the turn after the last write is the
\* saveToDisk() the method ends in.
putWritesTurn(s, config, writes, taskId, idx) ==
  IF s.db = None THEN Throw(s, TypeErrorNull)
  ELSE IF ~s.db.schema THEN Throw(s, NoSuchTable)
  ELSE LET s1 == [s EXCEPT !.db =
                    InsertOrReplaceWrite(@, WriteRow(config, writes[idx + 1], taskId, idx))]
       IN  [s |-> IF idx + 1 = Len(writes) THEN saveToDisk(s1) ELSE s1,
            out |-> [value |-> None]]

putWrites(s, config, writes, taskId) ==
  IF Threw(putWritesChecks(s, config).out) THEN putWritesChecks(s, config)
  ELSE IF writes # <<>> /\ ~s.db.schema THEN Throw(s, NoSuchTable)
  ELSE [s |-> saveToDisk([s EXCEPT !.db = UpsertWrites(@, config, writes, taskId, 0)]),
        out |-> [value |-> None]]

deleteThread_checkpointsOnly(s, threadId) ==
  IF s.db = None THEN Throw(s, "Database not initialized")
  ELSE IF ~s.db.schema THEN Throw(s, NoSuchTable)
  ELSE [s |-> saveToDisk([s EXCEPT !.db = DeleteCheckpointsOfThread(@, threadId)]),
        out |-> [value |-> None]]

deleteThread_everyThread(s, threadId) ==
  IF s.db = None THEN Throw(s, "Database not initialized")
  ELSE IF ~s.db.schema THEN Throw(s, NoSuchTable)
  ELSE [s |-> saveToDisk([s EXCEPT !.db = [@ EXCEPT !.checkpoints = <<>>, !.writes = <<>>]]),
        out |-> [value |-> None]]

deleteThread(s, threadId) ==
  IF s.db = None THEN Throw(s, "Database not initialized")
  ELSE IF ~s.db.schema THEN Throw(s, NoSuchTable)
  ELSE [s |-> saveToDisk([s EXCEPT !.db =
                 DeleteWritesOfThread(DeleteCheckpointsOfThread(@, threadId), threadId)]),
        out |-> [value |-> None]]

Callers == {"c1", "c2"}

Idle == [op |-> "idle", pc |-> "idle"]

\* db.export() and db.close() of sql.js free every statement prepared on the
\* database: a getTuple() or list() that stands at an await or a yield with
\* a statement open ("writes", "rows") finds it closed when it goes on.
OpenStatements == {"writes", "rows"}

FreeStatements(cs) ==
  [c \in Callers |->
     IF cs[c].pc \in OpenStatements THEN [cs[c] EXCEPT !.pc = "freed"] ELSE cs[c]]

(***************************************************************************)
(* The main process around the stores: the agent handlers keep activeRuns, *)
(* a Map from thread id to the AbortController of the run registered for   *)
(* the thread; the runtime keeps checkpointers, a Map from thread id to    *)
(* the thread's SqlJsSaver.  RunIds and SaverIds name the controllers and  *)
(* the store objects in the order they are constructed.                    *)
(***************************************************************************)
Threads == {"T1", "T2"}

MaxRuns == 3

RunIds == 1 .. MaxRuns

NoRun == 0

Unborn == [pc |-> "unborn", threadId |-> Null, handler |-> Null, aborted |-> FALSE]

MaxSavers == 3

SaverIds == 1 .. MaxSavers

NoSaver == 0

Unmade == [threadId |-> Null, at |-> "unmade"]

Getters == {"g1", "g2"}

Resting == [op |-> "idle", pc |-> "idle", threadId |-> Null, checkpointer |-> NoSaver]

\* The module-level state when the main process has started.
Launched ==
  /\ activeRuns = [t \in Threads |-> NoRun]
  /\ runs = [r \in RunIds |-> Unborn]
  /\ checkpointers = [t \in Threads |-> NoSaver]
  /\ getters = [g \in Getters |-> Resting]
  /\ savers = [i \in SaverIds |-> Unmade]

(***************************************************************************)
(* Steps.  A call by a caller that awaits it is one step: the method's     *)
(* initialize(), its body, and the saveToDisk() a mutation ends in.  ret   *)
(* records the call and what it returned (or threw).                       *)
(***************************************************************************)
Commit(s) ==
  /\ db' = s.db
  /\ isSetup' = s.isSetup
  /\ dirty' = s.dirty
  /\ saveTimer' = s.saveTimer
  /\ timers' = s.timers
  /\ file' = s.file
  /\ backup' = s.backup
  /\ UNCHANGED app

Put(fs, config, checkpoint, metadata) ==
  LET r == put(initialize(Self, fs), config, checkpoint, metadata)
  IN  /\ Commit(r.s)
      /\ UNCHANGED calls
      /\ ret' = [op |-> "put", config |-> config, checkpoint |-> checkpoint,
                 metadata |-> metadata, out |-> r.out,
                 \* history: the call replaced a row stored before it
                 replaced |-> /\ db # None
                              /\ \E row \in Rows(db.checkpoints) :
                                    CheckpointKey(row) =
                                      CheckpointKey(CheckpointRow(Configurable(config),
                                                                  checkpoint, metadata))]

PutWrites(fs, config, writes, taskId) ==
  LET r == putWrites(initialize(Self, fs), config, writes, taskId)
  IN  /\ Commit(r.s)
      /\ UNCHANGED calls
      /\ ret' = [op |-> "putWrites", config |-> config, writes |-> writes,
                 taskId |-> taskId, out |-> r.out,
                 \* history: the call replaced a row stored before it
                 replaced |-> /\ db # None
                              /\ \E row \in Rows(db.writes), i \in DOMAIN writes :
                                    WriteKey(row) =
                                      WriteKey(WriteRow(Configurable(config), writes[i],
                                                        taskId, i - 1))]

GetTuple(fs, config) ==
  LET r == getTuple(initialize(Self, fs), config)
  IN  /\ Commit(r.s)
      /\ UNCHANGED calls
      /\ ret' = [op |-> "getTuple", config |-> config, out |-> r.out]

List(fs, config, options) ==
  LET r == list(initialize(Self, fs), config, options)
  IN  /\ Commit(r.s)
      /\ UNCHANGED calls
      /\ ret' = [op |-> "list", config |-> config, options |-> options, out |-> r.out]

DeleteThread(fs, threadId) ==
  LET r == deleteThread(initialize(Self, fs), threadId)
  IN  /\ Commit(r.s)
      /\ UNCHANGED calls
      /\ ret' = [op |-> "deleteThread", threadId |-> threadId, out |-> r.out,
                 \* history: the numbers of rows the call removed
                 removed |-> IF db = None \/ r.s.db = None THEN <<0, 0>>
                             ELSE <<Len(db.checkpoints) - Len(r.s.db.checkpoints),
                                    Len(db.writes) - Len(r.s.db.writes)>>]

\* The state after "new SqlJsSaver(dbPath)", the backing file being f.
Constructed(f) ==
  /\ db = None
  /\ isSetup = FALSE
  /\ dirty = FALSE
  /\ saveTimer = Null
  /\ timers = 0
  /\ file = f
  /\ backup = Absent
  /\ calls = [c \in Callers |-> Idle]
  /\ ret = [op |-> "new"]
  /\ Launched

\* The model stops at tables of maxCheckpoints and maxWrites rows.
Bounded(maxCheckpoints, maxWrites) ==
  db' # None =>
    Len(db'.checkpoints) <= maxCheckpoints /\ Len(db'.writes) <= maxWrites

Checkpoint(id, body) == [kind |-> "obj", id |-> id, body |-> body, bytes |-> 1024]

Metadata(name) == [kind |-> "obj", name |-> name, bytes |-> 64]

Ref(t, ns, id) == [thread_id |-> t, checkpoint_ns |-> ns, checkpoint_id |-> id]

Namespaces == {Null, "sub"}

(***************************************************************************)
(* Spec: one caller putting and reading checkpoints of one thread on a     *)
(* store it has just constructed over no file, faster than the debounce    *)
(* timer fires.  The checkpoints differ in body, metadata and parent.      *)
(***************************************************************************)
MaxCheckpoints == 2

Ids == {"a", "b"}

Parents == {Null, "a"}

Payloads == {<<"x", "m">>, <<"y", "n">>}

Init == Constructed(Absent)

PutAny ==
  \E ns \in Namespaces, parent \in Parents, id \in Ids, p \in Payloads :
    /\ Put("renamed", Ref("T1", ns, parent), Checkpoint(id, p[1]), Metadata(p[2]))
    /\ Bounded(MaxCheckpoints, 0)

GetTupleAny ==
  \E ns \in Namespaces, id \in {Null} \cup Ids : GetTuple("renamed", Ref("T1", ns, id))

ListAny ==
  \E ns \in Namespaces : List("renamed", Ref("T1", ns, Null), [before |-> None])

DeleteThreadAny == DeleteThread("renamed", "T1")

Next == PutAny \/ GetTupleAny \/ ListAny \/ DeleteThreadAny

Spec == Init /\ [][Next]_vars

Returned(op) == ret.op = op /\ ~Threw(ret.out)

\* The rows of the checkpoints table stored under a reference's key.
StoredUnder(ref) ==
  IF db = None THEN {}
  ELSE {row \in Rows(db.checkpoints) :
          CheckpointKey(row) =
            <<ref.thread_id, Coalesce(ref.checkpoint_ns, ""), ref.checkpoint_id>>}

\* C1 (round trip): put(ref, C, M) returns the reference (ref.thread_id,
\* ref.checkpoint_ns or "", C.id), and getTuple on that reference, the key not
\* having been touched since, returns a checkpoint equal to C and metadata
\* equal to M.
C1_RoundTrip ==
  Returned("put") =>
    /\ ret.out.value = Ref(ret.config.thread_id, Coalesce(ret.config.checkpoint_ns, ""),
                           ret.checkpoint.id)
    /\ LET got == getTuple(Self, ret.out.value).out
       IN  /\ ~Threw(got)
           /\ got.value # None
           /\ got.value.checkpoint = ret.checkpoint
           /\ got.value.metadata = ret.metadata

\* A put has returned after replacing a row, another row being stored too.
C1_Witness ==
  /\ Returned("put")
  /\ ret.replaced
  /\ Len(db.checkpoints) = 2
  /\ ret.config.checkpoint_ns = Null

\* C3 (parent chaining): put stores the checkpoint_id of the reference it is
\* given as the new row's parent_checkpoint_id, and none when the reference
\* carries no checkpoint_id; getTuple and list expose, for a row with a
\* parent, a parent reference with the row's own thread_id and namespace and
\* the parent's id, and no parent reference for a row without one.
Exposed(tuple) ==
  \A row \in StoredUnder(tuple.config) :
    tuple.parentConfig =
      IF row.parent_checkpoint_id = Null THEN None
      ELSE Ref(row.thread_id, row.checkpoint_ns, row.parent_checkpoint_id)

C3_ParentChaining ==
  /\ Returned("put") =>
       /\ StoredUnder(ret.out.value) # {}
       /\ \A row \in StoredUnder(ret.out.value) :
            row.parent_checkpoint_id = ret.config.checkpoint_id
  /\ (Returned("getTuple") /\ ret.out.value # None) =>
       StoredUnder(ret.out.value.config) # {} /\ Exposed(ret.out.value)
  /\ Returned("list") =>
       \A i \in DOMAIN ret.out.value :
         StoredUnder(ret.out.value[i].config) # {} /\ Exposed(ret.out.value[i])

\* list has yielded a child with its parent reference and a root without one.
C3_Witness ==
  /\ Returned("list")
  /\ Len(ret.out.value) = 2
  /\ ret.out.value[1].parentConfig = Ref("T1", "sub", "a")
  /\ ret.out.value[2].parentConfig = None

\* C6 (idempotent replace): the checkpoints table never holds two rows with
\* the same (thread_id, checkpoint_ns, checkpoint_id), and after a put the one
\* row of its key holds that call's checkpoint, metadata and parent id.
C6_KeyUnique ==
  /\ db # None =>
       \A i, j \in DOMAIN db.checkpoints :
         CheckpointKey(db.checkpoints[i]) = CheckpointKey(db.checkpoints[j]) => i = j
  /\ Returned("put") =>
       /\ Cardinality(StoredUnder(ret.out.value)) = 1
       /\ \A row \in StoredUnder(ret.out.value) :
            /\ loadsTyped(row.type, row.checkpoint) = ret.checkpoint
            /\ loadsTyped(row.type, row.metadata) = ret.metadata
            /\ row.parent_checkpoint_id = ret.config.checkpoint_id

\* A second put on a key has returned, with a parent the first did not have.
C6_Witness ==
  /\ Returned("put")
  /\ ret.replaced
  /\ ret.config.checkpoint_id = "a"
  /\ ret.checkpoint.body = "y"

(***************************************************************************)
(* SpecOrder: one caller putting checkpoints with the ids "a" < "ab" < "b" *)
(* in any order into three (thread, namespace) scopes, deleting threads,   *)
(* and reading the latest and the listing of each scope.                   *)
(***************************************************************************)
MaxOrdered == 3

MaxLimit == 2

OrderIds == {"a", "ab", "b"}

Scopes == {<<"T1", Null>>, <<"T1", "sub">>, <<"T2", Null>>}

PutOrdered ==
  \E sc \in Scopes, id \in OrderIds :
    /\ Put("renamed", Ref(sc[1], sc[2], Null), Checkpoint(id, "x"), Metadata("m"))
    /\ Bounded(MaxOrdered, 0)

GetLatest == \E sc \in Scopes : GetTuple("renamed", Ref(sc[1], sc[2], Null))

ListBefore ==
  \E ns \in Namespaces :
  \E before \in {None} \cup {Ref("T1", ns, id) : id \in {"ab", "b"}} :
    \/ List("renamed", Ref("T1", ns, Null), [before |-> before])
    \/ \E n \in 0..MaxLimit :
         List("renamed", Ref("T1", ns, Null), [before |-> before, limit |-> n])

DeleteOrdered == \E t \in {"T1", "T2"} : DeleteThread("renamed", t)

NextOrder == PutOrdered \/ GetLatest \/ ListBefore \/ DeleteOrdered

SpecOrder == Init /\ [][NextOrder]_vars

\* The rows stored for a (thread_id, namespace).
StoredIn(thread_id, checkpoint_ns) ==
  IF db = None THEN {}
  ELSE {row \in Rows(db.checkpoints) :
          row.thread_id = thread_id /\ row.checkpoint_ns = Coalesce(checkpoint_ns, "")}

\* C2 (latest wins): getTuple with no checkpoint_id returns nothing when no row
\* is stored for (thread_id, namespace), and otherwise the checkpoint of the
\* stored row whose checkpoint_id is the lexicographic maximum, with a
\* reference pinned to that id.
C2_LatestWins ==
  (Returned("getTuple") /\ ret.config.checkpoint_id = Null) =>
    LET stored == StoredIn(ret.config.thread_id, ret.config.checkpoint_ns)
    IN  IF stored = {} THEN ret.out.value = None
        ELSE /\ ret.out.value # None
             /\ \E top \in stored :
                  /\ \A row \in stored :
                       row = top \/ TextLess(row.checkpoint_id, top.checkpoint_id)
                  /\ ret.out.value.config =
                       Ref(top.thread_id, top.checkpoint_ns, top.checkpoint_id)
                  /\ ret.out.value.checkpoint.id = top.checkpoint_id
                  /\ ret.out.value.checkpoint = loadsTyped(top.type, top.checkpoint)

\* The latest of three checkpoints put with the largest id first was read.
C2_Witness ==
  /\ Returned("getTuple")
  /\ ret.config = Ref("T1", Null, Null)
  /\ Len(db.checkpoints) = 3
  /\ [i \in 1..3 |-> db.checkpoints[i].checkpoint_id] = <<"b", "a", "ab">>
  /\ \A i \in 1..3 : db.checkpoints[i].thread_id = "T1" /\ db.checkpoints[i].checkpoint_ns = ""
  /\ ret.out.value.config.checkpoint_id = "b"

\* C9 (listing cursor), as claimed: list(ref, {before: X, limit: N}) yields at
\* most N checkpoints for every N >= 0, all of (ref.thread_id, ref.namespace),
\* all with checkpoint_id strictly less than X, in strictly descending order.
C9_ListingCursor ==
  (Returned("list") /\ "limit" \in DOMAIN ret.options /\ ret.options.before # None) =>
    LET out == ret.out.value
    IN  /\ Len(out) <= ret.options.limit
        /\ \A i \in DOMAIN out :
             /\ out[i].config.thread_id = ret.config.thread_id
             /\ out[i].config.checkpoint_ns = Coalesce(ret.config.checkpoint_ns, "")
             /\ TextLess(out[i].config.checkpoint_id, ret.options.before.checkpoint_id)
        /\ \A i, j \in DOMAIN out :
             i < j => TextLess(out[j].config.checkpoint_id, out[i].config.checkpoint_id)

\* The same for every N >= 1: what the code does.
C9_ListingCursorPositive ==
  (Returned("list") /\ "limit" \in DOMAIN ret.options /\ ret.options.before # None
     /\ ret.options.limit >= 1) => C9_ListingCursor

(***************************************************************************)
(* SpecWrites: one caller putting checkpoints "a" of three (thread,        *)
(* namespace) scopes and checkpoint "b" of the first, attaching a batch of *)
(* two pending writes (a JSON value and a byte array) to any of four       *)
(* checkpoints under either of two tasks, deleting threads and reading.    *)
(***************************************************************************)
MaxWCheckpoints == 3

MaxWrites == 4

Object(name) == [kind |-> "obj", name |-> name, bytes |-> 16]

ByteArray(name) == [kind |-> "u8", name |-> name, bytes |-> 16]

WriteRefs ==
  {Ref("T1", Null, "a"), Ref("T1", Null, "b"), Ref("T1", "sub", "a"), Ref("T2", Null, "a")}

Batch == << <<"c1", Object("v")>>, <<"c2", ByteArray("u")>> >>

PutW ==
  \E ref \in WriteRefs :
    /\ Put("renamed", Ref(ref.thread_id, ref.checkpoint_ns, Null),
           Checkpoint(ref.checkpoint_id, "x"), Metadata("m"))
    /\ Bounded(MaxWCheckpoints, MaxWrites)

PutWritesW ==
  \E ref \in WriteRefs, task \in {"t1", "t2"} :
    /\ PutWrites("renamed", ref, Batch, task)
    /\ Bounded(MaxWCheckpoints, MaxWrites)

GetTupleW == \E ref \in WriteRefs : GetTuple("renamed", ref)

ListW == \E ns \in Namespaces : List("renamed", Ref("T1", ns, Null), [before |-> None])

DeleteThreadW == \E t \in {"T1", "T2"} : DeleteThread("renamed", t)

NextWrites == PutW \/ PutWritesW \/ GetTupleW \/ ListW \/ DeleteThreadW

SpecWrites == Init /\ [][NextWrites]_vars

\* The rows of the writes table stored for the checkpoint a reference names.
WritesUnder(ref) ==
  IF db = None THEN {}
  ELSE {w \in Rows(db.writes) :
          /\ w.thread_id = ref.thread_id
          /\ w.checkpoint_ns = Coalesce(ref.checkpoint_ns, "")
          /\ w.checkpoint_id = ref.checkpoint_id}

Occurrences(seq, x) == Cardinality({i \in DOMAIN seq : seq[i] = x})

\* C4 (pending-write association): the pending writes getTuple attaches to a
\* checkpoint are exactly the rows stored under its (thread_id, namespace,
\* checkpoint_id): each such row once, as (task_id, channel, value), and
\* nothing else; and right after putWrites(ref@X, writes, task) the writes
\* getTuple(ref@X) returns hold (task, channel, value) of each write given.
C4_WriteAssociation ==
  /\ (Returned("getTuple") /\ ret.out.value # None) =>
       LET stored == WritesUnder(ret.out.value.config)
           got == ret.out.value.pendingWrites
       IN  /\ Len(got) = Cardinality(stored)
           /\ \A w \in stored :
                \E i \in DOMAIN got :
                  got[i] = <<w.task_id, w.channel, loadsTyped(w.type, w.value)>>
  /\ Returned("putWrites") =>
       LET got == getTuple(Self, ret.config).out
       IN  (~Threw(got) /\ got.value # None) =>
             \A i \in DOMAIN ret.writes :
               Occurrences(got.value.pendingWrites,
                           <<ret.taskId, ret.writes[i][1], ret.writes[i][2]>>) = 1

\* A checkpoint was read with the two writes of one task while another
\* checkpoint of its namespace holds writes too.
C4_Witness ==
  /\ Returned("getTuple")
  /\ ret.config = Ref("T1", Null, "a")
  /\ ret.out.value # None
  /\ Len(ret.out.value.pendingWrites) = 2
  /\ WritesUnder(Ref("T1", Null, "b")) # {}

\* C7 (thread isolation): a deleteThread(T1) step leaves the checkpoint rows
\* and the pending-write rows of every other thread as they were, in every
\* namespace.
OtherRows(e, threadId) ==
  IF e = None THEN <<>>
  ELSE <<SelectSeq(e.checkpoints, LAMBDA r : r.thread_id # threadId),
         SelectSeq(e.writes, LAMBDA r : r.thread_id # threadId)>>

C7_ThreadIsolation ==
  [][ret'.op = "deleteThread" =>
       OtherRows(db', ret'.threadId) = OtherRows(initialize(Self, "renamed").db, ret'.threadId)]_vars

\* A deleteThread removed checkpoints and writes while another thread holds
\* checkpoints in two namespaces and writes.
C7_Witness ==
  /\ Returned("deleteThread")
  /\ ret.threadId = "T2"
  /\ ret.removed[1] > 0 /\ ret.removed[2] > 0
  /\ StoredIn("T1", Null) # {} /\ StoredIn("T1", "sub") # {}
  /\ Len(db.writes) > 0

(***************************************************************************)
(* SpecTasks: one caller attaching writes to one checkpoint under the      *)
(* tasks "t10" < "t2", a batch of one write and a batch of two, run and    *)
(* re-run in any order.                                                    *)
(***************************************************************************)
MaxTaskWrites == 4

Tasks == {"t10", "t2"}

Batches == { << <<"c1", Object("v")>> >>,
             << <<"c2", ByteArray("u")>>, <<"c1", Object("w")>> >> }

PutT ==
  /\ Put("renamed", Ref("T1", Null, Null), Checkpoint("a", "x"), Metadata("m"))
  /\ Bounded(1, MaxTaskWrites)

PutWritesT ==
  \E task \in Tasks, batch \in Batches :
    /\ PutWrites("renamed", Ref("T1", Null, "a"), batch, task)
    /\ Bounded(1, MaxTaskWrites)

GetTupleT == \E id \in {Null, "a"} : GetTuple("renamed", Ref("T1", Null, id))

ListT == List("renamed", Ref("T1", Null, Null), [before |-> None])

NextTasks == PutT \/ PutWritesT \/ GetTupleT \/ ListT

SpecTasks == Init /\ [][NextTasks]_vars

\* (task_id, index) order: task ids bytewise, then the index.
Earlier(x, y) ==
  \/ TextLess(x.task_id, y.task_id)
  \/ x.task_id = y.task_id /\ x.idx < y.idx

\* The i-th pending write of a tuple is the stored row with i - 1 rows before it.
Ascending(tuple) ==
  LET stored == WritesUnder(tuple.config)
  IN  /\ Len(tuple.pendingWrites) = Cardinality(stored)
      /\ \A i \in DOMAIN tuple.pendingWrites :
           \E w \in stored :
             /\ Cardinality({v \in stored : Earlier(v, w)}) = i - 1
             /\ tuple.pendingWrites[i] = <<w.task_id, w.channel, loadsTyped(w.type, w.value)>>

TimerFire ==
  /\ timers > 0
  /\ \A c \in Callers : \/ calls[c].pc \in {"idle", "rows", "freed"}
                         \/ (calls[c].pc = "loading" /\ db = None)
  /\ \E held \in BOOLEAN :
        /\ IF held THEN saveTimer = "armed"
                   ELSE timers > (IF saveTimer = "armed" THEN 1 ELSE 0)
        /\ Commit(timerExpiry(Self, held))
  /\ calls' = IF db # None /\ dirty THEN FreeStatements(calls) ELSE calls
  /\ ret' = [op |-> "timer",
             \* history: the callback wrote the image; the file it found
             wrote |-> db # None /\ dirty, before |-> file,
             io |-> IF db # None /\ dirty THEN "ok" ELSE "none"]

\* The timeout expires on a dirty store and writeFileSync throws in its
\* callback: no call is there to reject, the exception is the process's
\* uncaughtException, which the handler of the main process logs.
TimerFail ==
  /\ timers > 0
  /\ db # None /\ dirty
  /\ \A c \in Callers : \/ calls[c].pc \in {"idle", "rows", "freed"}
                         \/ (calls[c].pc = "loading" /\ db = None)
  /\ \E held \in BOOLEAN :
        /\ IF held THEN saveTimer = "armed"
                   ELSE timers > (IF saveTimer = "armed" THEN 1 ELSE 0)
        /\ Commit(timerCallbackThrows([Self EXCEPT
                     !.timers = @ - 1,
                     !.saveTimer = IF held THEN "fired" ELSE @]))
  /\ calls' = FreeStatements(calls)
  /\ ret' = [op |-> "timer", wrote |-> FALSE, before |-> file, io |-> "EIO"]

Flush(io) ==
  LET r == flush(Self, io)
  IN  /\ Commit(r.s)
      /\ calls' = IF db # None /\ dirty THEN FreeStatements(calls) ELSE calls
      /\ ret' = [op |-> "flush", out |-> r.out,
                 \* history: the engine flush() found, whether it was dirty,
                 \* and what writeFileSync did when called
                 engine |-> db, wrote |-> db # None /\ dirty,
                 io |-> IF db # None /\ dirty THEN io ELSE "none"]

Close(io) ==
  LET r == close(Self, io)
  IN  /\ Commit(r.s)
      /\ calls' = IF db # None THEN FreeStatements(calls) ELSE calls
      /\ ret' = [op |-> "close", out |-> r.out,
                 \* history: the engine close() found, whether it was dirty,
                 \* and what writeFileSync did when called
                 engine |-> db, wrote |-> db # None /\ dirty,
                 io |-> IF db # None /\ dirty THEN io ELSE "none"]

(***************************************************************************)
(* SpecLife: one store object through its life: checkpoints of 60MB each   *)
(* (two of them pass the size ceiling), a pending write, the debounce      *)
(* timer, flush(), close() and the re-initialization a call after close()  *)
(* runs, the file system failing or not.                                   *)
(***************************************************************************)
MaxLifeCheckpoints == 2

MaxLifeWrites == 1

LargeBytes == 60 * 1024 * 1024

LargeCheckpoint(id) == [kind |-> "obj", id |-> id, body |-> "large", bytes |-> LargeBytes]

FsOutcomes == {"renamed", "unlinked", "kept"}

IoOutcomes == {"ok", "EIO"}

PutL ==
  \E fs \in FsOutcomes, id \in {"a", "b"} :
    /\ Put(fs, Ref("T1", Null, Null), LargeCheckpoint(id), Metadata("m"))
    /\ Bounded(MaxLifeCheckpoints, MaxLifeWrites)

PutWritesL ==
  \E fs \in FsOutcomes :
    /\ PutWrites(fs, Ref("T1", Null, "a"), <<<<"ch", Object("w")>>>>, "t1")
    /\ Bounded(MaxLifeCheckpoints, MaxLifeWrites)

GetTupleL == \E fs \in FsOutcomes : GetTuple(fs, Ref("T1", Null, Null))

DeleteThreadL == \E fs \in FsOutcomes : DeleteThread(fs, "T1")

FlushL == \E io \in IoOutcomes : Flush(io)

CloseL == \E io \in IoOutcomes : Close(io)

NextLife ==
  \/ PutL \/ PutWritesL \/ GetTupleL \/ DeleteThreadL \/ FlushL \/ CloseL
  \/ TimerFire \/ TimerFail

SpecLife == Init /\ [][NextLife]_vars

\* A store newly constructed on the backing file f, and the engine its
\* initialize() gives it.
NewStore(f) ==
  [db |-> None, isSetup |-> FALSE, dirty |-> FALSE, saveTimer |-> Null,
   timers |-> 0, file |-> f, backup |-> Absent]

Reloaded(f) == initialize(NewStore(f), "renamed").db

\* Two engines answer getTuple and list alike: the same rows in both tables.
SameRows(e1, e2) == e1.checkpoints = e2.checkpoints /\ e1.writes = e2.writes

\* C10 (as stated): after flush() or close() returns without error, a store
\* newly constructed and initialized on the backing file holds exactly the
\* checkpoints and pending writes the engine held at that moment.
C10_Durability ==
  (ret.op \in {"flush", "close"} /\ ~Threw(ret.out) /\ ret.engine # None)
    => SameRows(Reloaded(file), ret.engine)

\* C10 (amended): after flush() or close() returns without error, and when
\* the engine's image at that moment is at or under the 100MB ceiling, a store
\* newly constructed and initialized on the backing file holds exactly the
\* checkpoints and pending writes the engine held at that moment.
C10_DurabilityUnderCeiling ==
  (ret.op \in {"flush", "close"} /\ ~Threw(ret.out) /\ ret.engine # None
     /\ ImageSize(ret.engine) <= MAX_DB_SIZE)
    => SameRows(Reloaded(file), ret.engine)

\* A close() that wrote an image with a checkpoint and a pending write in it,
\* under the ceiling, which a new store reads back.
C10_Witness ==
  /\ Returned("close")
  /\ ret.wrote
  /\ ret.engine.checkpoints # <<>>
  /\ ret.engine.writes # <<>>
  /\ ImageSize(ret.engine) <= MAX_DB_SIZE
  /\ Reloaded(file).checkpoints = ret.engine.checkpoints

(***************************************************************************)
(* Calls in flight.  Callers that do not await one another interleave at   *)
(* the awaits of the methods: a step below is the code between two awaits, *)
(* run to completion.  calls[c] holds caller c's call, its arguments and   *)
(* locals, and pc, the await it stands at:                                 *)
(*   "loading"     initialize()'s "await initSqlJs()", this.db being unset *)
(*   "ready"       the method's "await this.initialize()", about to resume *)
(*   "serialized"  put()'s "await Promise.all([...])"                      *)
(*   "write"       putWrites()' "await dumpsTyped(write[1])" of turn idx   *)
(*   "writes"      getTuple()'s and list()'s "await loadsTyped(...)" of    *)
(*                 the write row cur, the writes statement still open      *)
(*   "rows"        list()'s yield, the checkpoints statement still open    *)
(* The awaits that follow a method's last statement decode values already  *)
(* fetched; the step of that statement completes the call.                 *)
(***************************************************************************)
Pending == [op |-> "pending"]

StatementClosed == "Statement closed"

PutCall(config, checkpoint, metadata) ==
  [op |-> "put", pc |-> "new", config |-> config, checkpoint |-> checkpoint,
   metadata |-> metadata]

PutWritesCall(config, writes, taskId) ==
  [op |-> "putWrites", pc |-> "new", config |-> config, writes |-> writes,
   taskId |-> taskId, idx |-> 0]

\* row: the checkpoint row in hand; cur: the write row in hand; writes: the
\* pendingWrites array so far; yielded: the tuples yielded so far; count: the
\* rows the checkpoints statement has returned.
ReadCall(op, config, options) ==
  [op |-> op, pc |-> "new", config |-> config, options |-> options,
   row |-> None, cur |-> None, writes |-> <<>>, yielded |-> <<>>, count |-> 0]

DeleteThreadCall(threadId) == [op |-> "deleteThread", pc |-> "new", threadId |-> threadId]

\* writesStmt.step(): the statement walks the primary-key index, so its next
\* row is the first one past the row in hand, in the table as it is now.
NextWrite(e, row, after) ==
  LET ws == SelectWrites(e, row.thread_id, row.checkpoint_ns, row.checkpoint_id)
      later == SelectSeq(ws, LAMBDA w : after = None \/ WriteBefore(after, w))
  IN  IF later = <<>> THEN None ELSE later[1]

\* stmt.step() of list(): the next row down the primary-key index, in the
\* table as it is now, until LIMIT rows have been returned.
NextCheckpoint(e, call) ==
  LET c == Configurable(call.config)
      all == ListRows(e, c.thread_id, Coalesce(c.checkpoint_ns, ""),
                      [before |-> call.options.before])
      later == SelectSeq(all, LAMBDA r :
                 call.row = None \/ TextLess(r.checkpoint_id, call.row.checkpoint_id))
      limited == /\ "limit" \in DOMAIN call.options
                 /\ call.options.limit # 0
                 /\ call.count >= call.options.limit
  IN  IF limited \/ later = <<>> THEN None ELSE later[1]

\* The call of caller c returns (or throws): result is what its promise
\* settles to.
Return(c, result) ==
  /\ calls' = [calls EXCEPT ![c] = Idle]
  /\ ret' = result

Continue(c, call) ==
  /\ calls' = [calls EXCEPT ![c] = call]
  /\ ret' = Pending

\* A method is called: it runs to "await this.initialize()", and
\* initialize() to its "await initSqlJs()" when this.db is unset.
Begin(c, call) ==
  /\ calls[c] = Idle
  /\ Continue(c, [call EXCEPT !.pc = IF db = None THEN "loading" ELSE "ready"])
  /\ UNCHANGED <<db, isSetup, dirty, saveTimer, timers, file, backup, app>>

\* initSqlJs() has resolved: initialize() goes on from existsSync(), whatever
\* this.db has become meanwhile.
Load(c, fs) ==
  /\ calls[c].pc = "loading"
  /\ Commit(initializeLoad(Self, fs))
  /\ Continue(c, [calls[c] EXCEPT !.pc = "ready"])

PutRun(c) ==
  /\ calls[c].op = "put" /\ calls[c].pc = "ready"
  /\ UNCHANGED <<db, isSetup, dirty, saveTimer, timers, file, backup, app>>
  /\ LET call == calls[c]
         r == putChecks(Self, call.config)
     IN  IF Threw(r.out)
           THEN Return(c, [op |-> "put", caller |-> c, config |-> call.config, out |-> r.out])
           ELSE Continue(c, [call EXCEPT !.pc = "serialized"])

PutStore(c) ==
  /\ calls[c].op = "put" /\ calls[c].pc = "serialized"
  /\ LET call == calls[c]
         r == putStore(Self, call.config, call.checkpoint, call.metadata)
     IN  /\ Commit(r.s)
         /\ Return(c, [op |-> "put", caller |-> c, config |-> call.config, out |-> r.out])

PutWritesRun(c) ==
  /\ calls[c].op = "putWrites" /\ calls[c].pc = "ready"
  /\ LET call == calls[c]
         r == putWritesChecks(Self, call.config)
     IN  IF Threw(r.out)
           THEN /\ Commit(r.s)
                /\ Return(c, [op |-> "putWrites", caller |-> c, config |-> call.config,
                              out |-> r.out])
         ELSE IF call.writes = <<>>
           THEN /\ Commit(saveToDisk(Self))
                /\ Return(c, [op |-> "putWrites", caller |-> c, config |-> call.config,
                              out |-> r.out])
         ELSE /\ Commit(r.s)
              /\ Continue(c, [call EXCEPT !.pc = "write"])

PutWritesTurn(c) ==
  /\ calls[c].op = "putWrites" /\ calls[c].pc = "write"
  /\ LET call == calls[c]
         r == putWritesTurn(Self, call.config, call.writes, call.taskId, call.idx)
     IN  /\ Commit(r.s)
         /\ IF Threw(r.out) \/ call.idx + 1 = Len(call.writes)
              THEN Return(c, [op |-> "putWrites", caller |-> c, config |-> call.config,
                              out |-> r.out])
              ELSE Continue(c, [call EXCEPT !.idx = @ + 1])

GetTupleRun(c) ==
  /\ calls[c].op = "getTuple" /\ calls[c].pc = "ready"
  /\ UNCHANGED <<db, isSetup, dirty, saveTimer, timers, file, backup, app>>
  /\ LET call == calls[c]
         done(out) == Return(c, [op |-> "getTuple", caller |-> c,
                                 config |-> call.config, out |-> out])
     IN  IF db = None \/ ~db.schema THEN done(getTuple(Self, call.config).out)
         ELSE LET rows == getTupleRows(db, call.config)
              IN  IF rows = <<>> THEN done([value |-> None])
                  ELSE IF NextWrite(db, rows[1], None) = None
                    THEN done([value |-> Tuple(rows[1], getTupleConfig(call.config, rows[1]),
                                               <<>>)])
                  ELSE Continue(c, [call EXCEPT !.pc = "writes", !.row = rows[1],
                                                !.cur = NextWrite(db, rows[1], None)])

GetTupleWrites(c) ==
  /\ calls[c].op = "getTuple" /\ calls[c].pc = "writes"
  /\ UNCHANGED <<db, isSetup, dirty, saveTimer, timers, file, backup, app>>
  /\ LET call == calls[c]
         got == Append(call.writes, Decoded(call.cur))
         done(out) == Return(c, [op |-> "getTuple", caller |-> c,
                                 config |-> call.config, out |-> out])
     IN  IF db = None THEN done([error |-> StatementClosed])
         ELSE IF NextWrite(db, call.row, call.cur) = None
           THEN done([value |-> Tuple(call.row, getTupleConfig(call.config, call.row), got)])
         ELSE Continue(c, [call EXCEPT !.writes = got,
                                       !.cur = NextWrite(db, call.row, call.cur)])

\* list(): step the checkpoints statement and, for the row it gives, the
\* writes statement.
ListAdvance(c, call) ==
  LET row == NextCheckpoint(db, call)
  IN  IF row = None
        THEN Return(c, [op |-> "list", caller |-> c, config |-> call.config,
                        options |-> call.options,
                        out |-> [value |-> call.yielded]])
      ELSE IF NextWrite(db, row, None) = None
        THEN Continue(c, [call EXCEPT !.pc = "rows", !.row = row, !.count = @ + 1,
                                      !.cur = None, !.writes = <<>>,
                                      !.yielded = Append(@, Tuple(row, RowConfig(row), <<>>))])
      ELSE Continue(c, [call EXCEPT !.pc = "writes", !.row = row, !.count = @ + 1,
                                    !.cur = NextWrite(db, row, None), !.writes = <<>>])

ListRun(c) ==
  /\ calls[c].op = "list" /\ calls[c].pc = "ready"
  /\ UNCHANGED <<db, isSetup, dirty, saveTimer, timers, file, backup, app>>
  /\ LET call == calls[c]
         whole == list(Self, call.config, call.options)
     IN  IF Threw(whole.out)
           THEN Return(c, [op |-> "list", caller |-> c, config |-> call.config,
                           options |-> call.options,
                           out |-> whole.out])
           ELSE ListAdvance(c, call)

ListWrites(c) ==
  /\ calls[c].op = "list" /\ calls[c].pc = "writes"
  /\ UNCHANGED <<db, isSetup, dirty, saveTimer, timers, file, backup, app>>
  /\ LET call == calls[c]
         got == Append(call.writes, Decoded(call.cur))
     IN  IF db = None
           THEN Return(c, [op |-> "list", caller |-> c, config |-> call.config,
                           options |-> call.options,
                           out |-> [error |-> StatementClosed]])
         ELSE IF NextWrite(db, call.row, call.cur) = None
           THEN Continue(c, [call EXCEPT !.pc = "rows", !.cur = None, !.writes = <<>>,
                               !.yielded = Append(@, Tuple(call.row, RowConfig(call.row), got))])
         ELSE Continue(c, [call EXCEPT !.writes = got,
                                       !.cur = NextWrite(db, call.row, call.cur)])

ListRows_next(c) ==
  /\ calls[c].op = "list" /\ calls[c].pc = "rows"
  /\ UNCHANGED <<db, isSetup, dirty, saveTimer, timers, file, backup, app>>
  /\ IF db = None
       THEN Return(c, [op |-> "list", caller |-> c, config |-> calls[c].config,
                       options |-> calls[c].options,
                       out |-> [error |-> StatementClosed]])
       ELSE ListAdvance(c, calls[c])

DeleteThreadRun(c) ==
  /\ calls[c].op = "deleteThread" /\ calls[c].pc = "ready"
  /\ LET call == calls[c]
         r == deleteThread(Self, call.threadId)
     IN  /\ Commit(r.s)
         /\ Return(c, [op |-> "deleteThread", caller |-> c, threadId |-> call.threadId,
                       out |-> r.out,
                       \* history: the numbers of rows the call removed
                       removed |-> IF db = None \/ r.s.db = None THEN <<0, 0>>
                                   ELSE <<Len(db.checkpoints) - Len(r.s.db.checkpoints),
                                          Len(db.writes) - Len(r.s.db.writes)>>])

\* A getTuple() or list() whose statements an export or a close has freed
\* steps one of them: sql.js throws.  A freed list() generator may also never
\* be stepped again by its consumer; the model lets every one go on.
StatementFreed(c) ==
  /\ calls[c].pc = "freed"
  /\ UNCHANGED <<db, isSetup, dirty, saveTimer, timers, file, backup, app>>
  /\ Return(c, [op |-> calls[c].op, caller |-> c, config |-> calls[c].config,
                out |-> [error |-> StatementClosed]])

\* initSqlJs() of sql.js hands every caller the one promise of the module, so
\* the initialize() continuations of the callers that found this.db unset
\* run one after the other, before any of these callers resumes its method.
LoadsDone == \A c \in Callers : calls[c].pc # "loading"

\* The code between two awaits of the call of caller c.
Resume(c) ==
  \/ PutRun(c) \/ PutStore(c)
  \/ PutWritesRun(c) \/ PutWritesTurn(c)
  \/ GetTupleRun(c) \/ GetTupleWrites(c)
  \/ ListRun(c) \/ ListWrites(c) \/ ListRows_next(c)
  \/ DeleteThreadRun(c)

(***************************************************************************)
(* SpecRace: two callers of one store that do not await one another, on    *)
(* thread T1 in two namespaces.  The debounce timer does not expire.       *)
(***************************************************************************)
RaceWrites == <<<<"ch", Object("w1")>>, <<"ch", Object("w2")>>>>

RaceCalls ==
  {PutCall(Ref("T1", ns, Null), Checkpoint("a", "x"), Metadata("m")) : ns \in Namespaces}
  \cup {PutWritesCall(Ref("T1", Null, "a"), RaceWrites, "t1"),
        PutWritesCall(Ref("T1", "sub", "a"), SubSeq(RaceWrites, 1, 1), "t1")}
  \cup {ReadCall("getTuple", Ref("T1", Null, Null), [before |-> None]),
        ReadCall("list", Ref("T1", Null, Null), [before |-> None]),
        DeleteThreadCall("T1")}

BeginRace == \E c \in Callers, call \in RaceCalls : Begin(c, call)

LoadRace == \E c \in Callers : Load(c, "renamed")

ResumeRace == \E c \in Callers : LoadsDone /\ Resume(c)

NextRace == BeginRace \/ LoadRace \/ ResumeRace

SpecRace == Init /\ [][NextRace]_vars

HasCheckpoints(e, t) ==
  e # None /\ \E row \in Rows(e.checkpoints) : row.thread_id = t

HasWrites(e, t) ==
  e # None /\ \E row \in Rows(e.writes) : row.thread_id = t

\* C8: a deleteThread(T) that returns leaves no checkpoint and no pending
\* write of T in any namespace, and no step of any caller runs between its two
\* deletions: no step takes T's checkpoints away and leaves a write of T for
\* the steps of the other callers to find.
C8_DeleteThreadAtomic ==
  [][/\ (ret'.op = "deleteThread" /\ ~Threw(ret'.out))
          => ~HasCheckpoints(db', ret'.threadId) /\ ~HasWrites(db', ret'.threadId)
     /\ (HasCheckpoints(db, "T1") /\ ~HasCheckpoints(db', "T1"))
          => ~HasWrites(db', "T1")]_vars

\* A deleteThread that removed checkpoints and writes of both namespaces while
\* the other caller stood inside a call of its own.
C8_Witness ==
  /\ Returned("deleteThread")
  /\ ret.removed[1] = 2
  /\ ret.removed[2] >= 2
  /\ \E c \in Callers : calls[c].pc \in {"serialized", "write", "writes", "rows"}

(***************************************************************************)
(* SpecGuard: a store constructed over a backing file a previous process   *)
(* left: none, a small image, or an image over the size ceiling.  The      *)
(* file's rows are of thread T0; the caller works on thread T1, with       *)
(* checkpoints of 60MB, and closes and reuses the store object.            *)
(***************************************************************************)
MaxGuardCheckpoints == 3

MaxGuardWrites == 2

SmallImage ==
  [schema |-> TRUE,
   checkpoints |-> <<CheckpointRow(Ref("T0", Null, Null), Checkpoint("a", "old"), Metadata("m"))>>,
   writes |-> <<WriteRow(Ref("T0", Null, "a"), <<"ch", Object("w")>>, "t1", 0)>>]

OversizeImage ==
  [schema |-> TRUE,
   checkpoints |-> <<CheckpointRow(Ref("T0", Null, Null), LargeCheckpoint("a"), Metadata("m")),
                     CheckpointRow(Ref("T0", Null, "a"), LargeCheckpoint("b"), Metadata("m"))>>,
   writes |-> <<>>]

GuardFiles == {Absent, SmallImage, OversizeImage}

InitGuard == \E f \in GuardFiles : Constructed(f)

PutG ==
  \E fs \in FsOutcomes, id \in {"a", "b"} :
    /\ Put(fs, Ref("T1", Null, Null), LargeCheckpoint(id), Metadata("m"))
    /\ Bounded(MaxGuardCheckpoints, MaxGuardWrites)

PutWritesG ==
  \E fs \in FsOutcomes :
    /\ PutWrites(fs, Ref("T1", Null, "a"), <<<<"ch", Object("w")>>>>, "t1")
    /\ Bounded(MaxGuardCheckpoints, MaxGuardWrites)

GetTupleG ==
  \E fs \in FsOutcomes, t \in {"T0", "T1"} : GetTuple(fs, Ref(t, Null, Null))

ListG == \E fs \in FsOutcomes : List(fs, Ref("T1", Null, Null), [before |-> None])

DeleteThreadG == \E fs \in FsOutcomes : DeleteThread(fs, "T1")

FlushG == \E io \in IoOutcomes : Flush(io)

CloseG == \E io \in IoOutcomes : Close(io)

NextGuard ==
  PutG \/ PutWritesG \/ GetTupleG \/ ListG \/ DeleteThreadG \/ FlushG \/ CloseG \/ TimerFire

SpecGuard == InitGuard /\ [][NextGuard]_vars

RepositoryOps == {"put", "putWrites", "getTuple", "list", "deleteThread"}

Oversized(f) == f # Absent /\ ImageSize(f) > MAX_DB_SIZE

\* What C11 says of a call whose initialize() finds the file f: a file at or
\* under the ceiling is the engine the call reads; over the ceiling the call
\* succeeds on an empty store.
SizeGuarded ==
  /\ (file # Absent /\ ~Oversized(file) /\ ret'.op \in {"getTuple", "list"})
       => SameRows(db', file)
  /\ Oversized(file)
       => /\ ~Threw(ret'.out)
          /\ ret'.op \in {"getTuple", "list"}
               => db'.checkpoints = <<>> /\ db'.writes = <<>>
          /\ ret'.op = "put" => Len(db'.checkpoints) = 1

\* C11 (size guard): a call that initializes the store loads the backing file
\* exactly when it is at or under the 100MB ceiling; over the ceiling nothing
\* of it is loaded, the call succeeds on an empty store, and no later
\* repository call fails for want of the tables.
C11_SizeGuard ==
  [][/\ (db = None /\ ret'.op \in RepositoryOps) => SizeGuarded
     /\ ret'.op \in RepositoryOps => ret'.out # [error |-> NoSuchTable]]_vars

\* C11 holds of a store object that has not been set up before: the first
\* initialize() after construction.
C11_SizeGuardFirstUse ==
  [][(db = None /\ ~isSetup /\ ret'.op \in RepositoryOps)
        => SizeGuarded /\ ret'.out # [error |-> NoSuchTable]]_vars

\* C12 (oversize recovery preserves the original): the oversized file found
\* at the backing path only ever leaves it, renamed or removed; no step
\* writes another image over it in place.
C12_OriginalPreserved ==
  [][(file = OversizeImage /\ file' # file) => file' = Absent]_vars

(***************************************************************************)
(* SpecErrors: one caller whose calls are not all well formed: references  *)
(* without configurable, without thread_id, without checkpoint_id;         *)
(* metadata the serializer tags differently from the checkpoint; write     *)
(* batches of 0, 1 and 2 writes.  flush() and the timer make the store     *)
(* clean between calls.                                                    *)
(***************************************************************************)
MaxErrCheckpoints == 2

MaxErrWrites == 2

PutConfigs ==
  {None, Ref(Null, Null, Null), Ref(Null, "sub", "a"), Ref("T1", Null, Null),
   Ref("T1", Null, "a")}

PutWritesConfigs ==
  {None, Ref(Null, Null, "a"), Ref("T1", Null, Null), Ref("T1", Null, "a")}

WriteBatches ==
  {<<>>, <<<<"ch", Object("w1")>>>>, <<<<"ch", Object("w1")>>, <<"ch", Object("w2")>>>>}

PutE ==
  \E config \in PutConfigs, id \in {"a", "b"}, metadata \in {Metadata("m"), ByteArray("u")} :
    /\ Put("renamed", config, Checkpoint(id, "x"), metadata)
    /\ Bounded(MaxErrCheckpoints, MaxErrWrites)

PutWritesE ==
  \E config \in PutWritesConfigs, writes \in WriteBatches :
    /\ PutWrites("renamed", config, writes, "t1")
    /\ Bounded(MaxErrCheckpoints, MaxErrWrites)

GetTupleE == GetTuple("renamed", Ref("T1", Null, Null))

FlushE == Flush("ok")

NextErrors == PutE \/ PutWritesE \/ GetTupleE \/ FlushE \/ TimerFire

SpecErrors == Init /\ [][NextErrors]_vars

ConfigurationErrors ==
  {"Empty configuration supplied.",
   "Missing \"thread_id\" field in passed \"config.configurable\".",
   "Missing thread_id field in config.configurable.",
   "Missing checkpoint_id field in config.configurable."}

IsConfigurationError(out) == Threw(out) /\ out.error \in ConfigurationErrors

LacksThread(config) == config = None \/ ~Truthy(config.thread_id)

LacksKey(config) == LacksThread(config) \/ ~Truthy(config.checkpoint_id)

\* C13: a put whose reference lacks thread_id fails with a configuration
\* error, and on a store already Ready it leaves the engine (no row inserted
\* or replaced), the dirty flag and the timer as they were.
C13_PutLacksThread ==
  [][(ret'.op = "put" /\ LacksThread(ret'.config))
        => /\ IsConfigurationError(ret'.out)
           /\ db # None => db' = db /\ dirty' = dirty /\ saveTimer' = saveTimer]_vars

\* A failed put on a Ready, clean store that holds a checkpoint.
C13_Witness ==
  /\ ret.op = "put" /\ LacksThread(ret.config) /\ Threw(ret.out)
  /\ db # None /\ db.checkpoints # <<>>
  /\ ~dirty /\ saveTimer # "armed"

\* C14 (as stated): a putWrites whose reference lacks thread_id or
\* checkpoint_id fails with a configuration error, and the writes table, the
\* dirty flag and the timer are as they were before the call.
C14_PutWritesLacksKey ==
  [][(ret'.op = "putWrites" /\ LacksKey(ret'.config))
        => /\ IsConfigurationError(ret'.out)
           /\ db'.writes = initialize(Self, "renamed").db.writes
           /\ dirty' = dirty
           /\ saveTimer' = saveTimer]_vars

\* C14 (amended): the same of a store already Ready: the failed call leaves
\* the writes table, the dirty flag and the timer as they were, whatever the
\* length of the batch.
C14_PutWritesLacksKeyReady ==
  [][(ret'.op = "putWrites" /\ LacksKey(ret'.config) /\ db # None)
        => /\ IsConfigurationError(ret'.out)
           /\ db'.writes = db.writes
           /\ dirty' = dirty
           /\ saveTimer' = saveTimer]_vars

\* A failed putWrites of two writes on a Ready, clean store that holds a write.
C14_Witness ==
  /\ ret.op = "putWrites" /\ LacksKey(ret.config) /\ Threw(ret.out)
  /\ Len(ret.writes) = 2
  /\ db # None /\ db.writes # <<>>
  /\ ~dirty /\ saveTimer # "armed"

\* The tag the serializer gave a stored value.
TagOf(data) == IF "json" \in DOMAIN data THEN "json" ELSE "bytes"

MismatchError == "Failed to serialize checkpoint and metadata to the same type."

\* C15 (serialization mismatch): a put whose checkpoint and metadata encode
\* to different type tags fails and upserts nothing, and every stored
\* checkpoint row carries one type tag, that of its checkpoint bytes and of
\* its metadata bytes.
C15_SingleTypeTag ==
  [][/\ (/\ ret'.op = "put"
         /\ ~LacksThread(ret'.config)
         /\ dumpsTyped(ret'.checkpoint)[1] # dumpsTyped(ret'.metadata)[1])
          => /\ ret'.out = [error |-> MismatchError]
             /\ db'.checkpoints = initialize(Self, "renamed").db.checkpoints
     /\ db' # None
          => \A row \in Rows(db'.checkpoints) :
                row.type = TagOf(row.checkpoint) /\ row.type = TagOf(row.metadata)]_vars

\* A put failed on the mismatch, on a store that holds a checkpoint.
C15_Witness ==
  /\ ret.op = "put"
  /\ ret.out = [error |-> MismatchError]
  /\ db # None /\ db.checkpoints # <<>>

\* C16 (no orphaned writes): every row of the writes table names a
\* (thread_id, namespace, checkpoint_id) under which a checkpoint row exists.
C16_NoOrphanedWrites ==
  db # None =>
    \A w \in Rows(db.writes) :
      \E row \in Rows(db.checkpoints) :
        /\ row.thread_id = w.thread_id
        /\ row.checkpoint_ns = w.checkpoint_ns
        /\ row.checkpoint_id = w.checkpoint_id

\* The rows a getTuple(ref) has to choose from: the row of ref's own
\* checkpoint_id, or without one the rows of ref's thread and namespace.
Matching(ref) ==
  IF db = None THEN {}
  ELSE {row \in Rows(db.checkpoints) :
          /\ row.thread_id = ref.thread_id
          /\ row.checkpoint_ns = Coalesce(ref.checkpoint_ns, "")
          /\ Truthy(ref.checkpoint_id) => row.checkpoint_id = ref.checkpoint_id}

\* C17 (not found): a getTuple that no row matches returns undefined and
\* throws nothing, also when the thread and namespace hold other checkpoints;
\* and in the state a deleteThread(T) returns in, getTuple finds nothing for T
\* in any namespace, by id or latest.
C17_NotFound ==
  /\ (ret.op = "getTuple" /\ Matching(ret.config) = {}) => ret.out = [value |-> None]
  /\ Returned("deleteThread")
       => \A ns \in Namespaces, id \in {Null} \cup Ids :
             getTuple(Self, Ref(ret.threadId, ns, id)).out = [value |-> None]

\* An exact lookup of an id that is not stored, in a thread and namespace that
\* hold another checkpoint, returned not found.
C17_Witness ==
  /\ ret.op = "getTuple"
  /\ Truthy(ret.config.checkpoint_id)
  /\ Matching(ret.config) = {}
  /\ Matching(Ref(ret.config.thread_id, ret.config.checkpoint_ns, Null)) # {}
  /\ ret.out = [value |-> None]

(***************************************************************************)
(* SpecInit: two callers whose first calls meet a store not yet            *)
(* initialized, over no file or over a small image left by a previous      *)
(* process, with initialize() and flush() called directly and the timer    *)
(* expiring when no call stands at a microtask.                            *)
(***************************************************************************)
InitializeCall == [op |-> "initialize", pc |-> "new"]

\* initialize() returns: at once when this.db was set, else after the load.
InitializeRun(c) ==
  /\ calls[c].op = "initialize" /\ calls[c].pc = "ready"
  /\ UNCHANGED <<db, isSetup, dirty, saveTimer, timers, file, backup, app>>
  /\ Return(c, [op |-> "initialize", caller |-> c, out |-> [value |-> None]])

\* flush() has no await: the call is one step.
FlushCall(c, io) ==
  /\ calls[c] = Idle
  /\ LET r == flush(Self, io)
     IN  /\ Commit(r.s)
         /\ calls' = IF db # None /\ dirty THEN FreeStatements(calls) ELSE calls
         /\ ret' = [op |-> "flush", caller |-> c, out |-> r.out,
                    engine |-> db, wrote |-> db # None /\ dirty]

InitCalls ==
  {PutCall(Ref("T1", Null, Null), Checkpoint(id, "x"), Metadata("m")) : id \in {"a", "b"}}
  \cup {PutWritesCall(Ref("T1", Null, "a"), <<<<"ch", Object("w1")>>>>, "t1"),
        ReadCall("getTuple", Ref("T1", Null, Null), [before |-> None]),
        ReadCall("list", Ref("T0", Null, Null), [before |-> None]),
        DeleteThreadCall("T1"),
        InitializeCall}

InitInit == \E f \in {Absent, SmallImage} : Constructed(f)

BeginInit == \E c \in Callers, call \in InitCalls : Begin(c, call)

LoadInit == \E c \in Callers : Load(c, "renamed")

ResumeInit ==
  \E c \in Callers : LoadsDone /\ (Resume(c) \/ InitializeRun(c) \/ StatementFreed(c))

FlushInit == \E c \in Callers : FlushCall(c, "ok")

NextInit == BeginInit \/ LoadInit \/ ResumeInit \/ FlushInit \/ TimerFire

SpecInit == InitInit /\ [][NextInit]_vars

\* C18 (destroyed only by deleteThread): a checkpoint key the engine holds
\* for thread T is held after every step that is not a deleteThread(T)
\* returning, and getTuple by that key still finds it.
C18_DestroyedOnlyByDeleteThread ==
  [][db # None =>
       \A row \in Rows(db.checkpoints) :
         ~(ret'.op = "deleteThread" /\ ret'.threadId = row.thread_id)
           => /\ db' # None
              /\ \E kept \in Rows(db'.checkpoints) : CheckpointKey(kept) = CheckpointKey(row)
              /\ getTuple(Self', RowConfig(row)).out # [value |-> None]
              /\ ~Threw(getTuple(Self', RowConfig(row)).out)]_vars

\* Two checkpoints of T1 are held, next to the one of T0 the file brought,
\* after both callers' first calls went through initialize() and a flush.
C18_Witness ==
  /\ db # None
  /\ Len(db.checkpoints) = 3
  /\ file # Absent /\ file # SmallImage
  /\ isSetup
  /\ \E c \in Callers : calls[c].op = "put" /\ calls[c].pc = "serialized"

\* C20 (single-flight initialization): the load/create work of initialize()
\* runs only while the store has no engine: no caller's initialize() replaces
\* an engine another caller's initialize() has set.
C20_SingleFlight ==
  [][\A c \in Callers :
        (calls[c].pc = "loading" /\ calls'[c].pc = "ready") => db = None]_vars

\* What getTuple and list return for namespace ns of thread t on the store s:
\* the lookups by each id and the latest, and the listing.
Answers(s, t, ns) ==
  [byId |-> [id \in {Null, "a", "b"} |-> getTuple(s, Ref(t, ns, id)).out],
   listed |-> list(s, Ref(t, ns, Null), [before |-> None]).out]

\* C19 (namespace isolation): a put or putWrites that succeeds in one
\* namespace of a thread leaves what getTuple and list return for the thread's
\* other namespace as it was, and in every state a reference without a
\* namespace reads what the empty-string namespace holds.
C19_NamespaceIsolation ==
  [][/\ (ret'.op \in {"put", "putWrites"} /\ ~Threw(ret'.out))
          => \A ns \in {"", "sub"} \ {Coalesce(ret'.config.checkpoint_ns, "")} :
                Answers(Self', ret'.config.thread_id, ns)
                  = Answers(initialize(Self, "renamed"), ret'.config.thread_id, ns)
     /\ db' # None
          => /\ Answers(Self', "T1", Null).listed = Answers(Self', "T1", "").listed
             /\ Answers(Self', "T1", Null).byId[Null] = Answers(Self', "T1", "").byId[Null]]_vars

\* A putWrites into namespace "sub" succeeded while the empty namespace held
\* a checkpoint of the same id with writes of the same task.
C19_Witness ==
  /\ Returned("putWrites")
  /\ ret.config = Ref("T1", "sub", "a")
  /\ StoredUnder(Ref("T1", "sub", "a")) # {}
  /\ StoredUnder(Ref("T1", Null, "a")) # {}
  /\ \E w \in WritesUnder(Ref("T1", Null, "a")) : w.task_id = ret.taskId

\* The tuples a completed getTuple or list handed its caller.
TuplesRead ==
  IF ret.op = "getTuple" /\ ~Threw(ret.out) /\ ret.out.value # None THEN {ret.out.value}
  ELSE IF ret.op = "list" /\ ~Threw(ret.out)
    THEN {ret.out.value[i] : i \in DOMAIN ret.out.value}
  ELSE {}

\* The pending writes of a tuple that task taskId made.
WritesOfTask(tuple, taskId) ==
  SelectSeq(tuple.pendingWrites, LAMBDA w : w[1] = taskId)

\* C21 (as stated): no operation of another caller runs between the upserts
\* of one putWrites call: a getTuple or list that returns while a putWrites
\* call of k writes is in flight hands its caller, for that call's checkpoint
\* and task, none of the batch's writes or all k of them, never a strict
\* prefix.
C21_BatchAtomic ==
  \A c \in Callers :
    (calls[c].op = "putWrites" /\ calls[c].pc = "write")
      => \A tuple \in TuplesRead :
           tuple.config = [calls[c].config EXCEPT !.checkpoint_ns = Coalesce(@, "")]
             => Len(WritesOfTask(tuple, calls[c].taskId)) \in {0, Len(calls[c].writes)}

\* C22 (write errors propagate): a flush() or close() whose write of the
\* image failed rejects with that error, leaves the store dirty and the file
\* as it was, and a close() so failed has not released the engine; a flush()
\* or close() that reports success after a write has the image in the file.
C22_WriteErrorPropagates ==
  [][(ret'.op \in {"flush", "close"} /\ ret'.wrote)
       => /\ ret'.io = "EIO" =>
               /\ ret'.out = [error |-> "EIO"]
               /\ dirty' /\ db' = db /\ file' = file
          /\ ~Threw(ret'.out) => ret'.io = "ok" /\ file' = db /\ ~dirty']_vars

\* A close() on a dirty store holding a checkpoint failed in its write: the
\* caller got the error and the engine is still there, still dirty.
C22_Witness ==
  /\ ret.op = "close" /\ ret.wrote /\ ret.io = "EIO"
  /\ Threw(ret.out)
  /\ db # None /\ db.checkpoints # <<>> /\ dirty
  /\ file # db

Mutations == {"put", "putWrites", "deleteThread"}

\* C23 (debounce coalescing): every put, putWrites and deleteThread that
\* succeeds leaves the store dirty with its timer armed, the timer pending
\* before it cancelled; the event loop never holds more than one timer of the
\* store; and the callback that writes the image leaves no timer pending and
\* the store clean, so that mutations with no expiry between them are written
\* by one export-and-write.
C23_DebounceCoalescing ==
  [][/\ (ret'.op \in Mutations /\ ~Threw(ret'.out))
          => dirty' /\ saveTimer' = "armed" /\ timers' = 1
     /\ timers' <= 1
     /\ (ret'.op = "timer" /\ ret'.wrote)
          => timers' = 0 /\ ~dirty' /\ file' = db /\ saveTimer' = "fired"]_vars

\* The timer writes, in one export and to a file never written before, the
\* image with two checkpoints and a write that three mutations stored.
C23_Witness ==
  /\ ret.op = "timer" /\ ret.wrote /\ ret.before = Absent
  /\ file = db
  /\ Len(db.checkpoints) = 2 /\ Len(db.writes) = 1
  /\ timers = 0 /\ ~dirty

(***************************************************************************)
(* SpecClose: two callers of one store that do not await one another, with *)
(* close() among their calls and the debounce timer expiring.  close()     *)
(* runs flush() at once and stands at "await this.flush()", which a        *)
(* microtask resolves: a call in flight whose continuation was queued      *)
(* before runs one step, to its next await, before close() goes on to      *)
(* release the engine.  A call after close() initializes the store object  *)
(* again.                                                                  *)
(***************************************************************************)
\* The continuation of caller c is not behind that of a close() standing at
\* its await: c stands where it stood when that close() was called.
Queued(c) ==
  \A k \in Callers \ {c} :
    calls[k].pc = "closing" => calls[k].ahead[c] = calls[c]

\* initSqlJs() resolves in a microtask once the engine module is loaded, and
\* the module is loaded once setup() has run; the first load is a task of
\* the event loop, which waits for close() to return.
LoadQueued(c) ==
  /\ Queued(c)
  /\ (\E k \in Callers : calls[k].pc = "closing") => isSetup

\* close() is called: flush() runs to its end; a write that fails rejects
\* close() there.
CloseBegin(c, io) ==
  /\ calls[c] = Idle
  /\ LET r == flush(Self, io)
         freed == IF db # None /\ dirty THEN FreeStatements(calls) ELSE calls
         \* history: the engine close() found, whether flush() wrote it, and
         \* what writeFileSync did when called
         wrote == db # None /\ dirty
         did == IF wrote THEN io ELSE "none"
     IN  /\ Commit(r.s)
         /\ IF Threw(r.out)
              THEN /\ calls' = freed
                   /\ ret' = [op |-> "close", caller |-> c, out |-> r.out,
                              engine |-> db, wrote |-> wrote, io |-> did]
              ELSE /\ calls' = [freed EXCEPT ![c] =
                                  [op |-> "close", pc |-> "closing",
                                   engine |-> db, wrote |-> wrote, io |-> did,
                                   \* history: where the other calls stood
                                   ahead |-> freed]]
                   /\ ret' = Pending

\* close() goes on from its await and returns.
CloseRelease(c) ==
  /\ calls[c].op = "close" /\ calls[c].pc = "closing"
  /\ Queued(c)
  /\ Commit(closeRelease(Self))
  /\ calls' = [(IF db # None THEN FreeStatements(calls) ELSE calls) EXCEPT ![c] = Idle]
  /\ ret' = [op |-> "close", caller |-> c, out |-> [value |-> None],
             engine |-> calls[c].engine, wrote |-> calls[c].wrote, io |-> calls[c].io,
             \* history: the engine close() released
             released |-> db]

CloseWrites == <<<<"ch", Object("w1")>>, <<"ch", Object("w2")>>>>

CloseCalls ==
  {PutCall(Ref("T1", Null, Null), Checkpoint("a", "x"), Metadata("m")),
   PutWritesCall(Ref("T1", Null, "a"), CloseWrites, "t1"),
   ReadCall("getTuple", Ref("T1", Null, Null), [before |-> None]),
   ReadCall("list", Ref("T1", Null, Null), [before |-> None]),
   DeleteThreadCall("T1")}

BeginClose ==
  \E c \in Callers, call \in CloseCalls : Queued(c) /\ Begin(c, call)

LoadClose == \E c \in Callers : LoadQueued(c) /\ Load(c, "renamed")

ResumeClose ==
  \E c \in Callers :
    LoadsDone /\ Queued(c) /\ (Resume(c) \/ StatementFreed(c))

FlushClose == \E c \in Callers : Queued(c) /\ FlushCall(c, "ok")

CloseClose ==
  \E c \in Callers : (Queued(c) /\ CloseBegin(c, "ok")) \/ CloseRelease(c)

NextClose == BeginClose \/ LoadClose \/ ResumeClose \/ FlushClose \/ CloseClose \/ TimerFire

SpecClose == Init /\ [][NextClose]_vars

\* The event loop is at rest: no call stands at an await a microtask
\* resolves, so a timer that is due fires.
AtRest ==
  \A c \in Callers : \/ calls[c].pc \in {"idle", "rows", "freed"}
                     \/ (calls[c].pc = "loading" /\ db = None)

(***************************************************************************)
(* SpecSettle: the calls of SpecClose but list(), writes never failing,    *)
(* and the event loop running a due timer if it comes to rest often        *)
(* enough.                                                                 *)
(***************************************************************************)
BeginSettle ==
  \E c \in Callers, call \in {k \in CloseCalls : k.op # "list"} :
    Queued(c) /\ Begin(c, call)

ResumeSettle ==
  \E c \in Callers :
    /\ LoadsDone
    /\ Queued(c)
    /\ \/ PutRun(c) \/ PutStore(c)
       \/ PutWritesRun(c) \/ PutWritesTurn(c)
       \/ GetTupleRun(c) \/ GetTupleWrites(c)
       \/ DeleteThreadRun(c)
       \/ StatementFreed(c)

NextSettle ==
  BeginSettle \/ LoadClose \/ ResumeSettle \/ FlushClose \/ CloseClose \/ TimerFire

SpecSettle == Init /\ [][NextSettle]_vars /\ SF_vars(TimerFire)

\* The callback of an expired timer writes the engine's whole image over the
\* backing file and clears dirty when the engine is held and the store dirty,
\* and writes and changes nothing when the store is clean or the engine
\* released.
TimerCallbackWrites ==
  [][ret'.op = "timer" =>
       IF db # None /\ dirty
         THEN file' = db /\ ~dirty' /\ db' = db
         ELSE file' = file /\ dirty' = dirty /\ db' = db]_vars

\* C24 (timer fire), as stated: the timer callback writes the image and
\* clears dirty when the store is dirty, and writes nothing when the store is
\* clean or the engine released; and, writes not failing and the event loop
\* coming to rest again and again, once a put, putWrites or deleteThread has
\* succeeded the store gets clean again, the file equal to the image of the
\* engine it holds.
C24_TimerFire ==
  /\ TimerCallbackWrites
  /\ []<>AtRest => ((ret.op \in Mutations /\ ~Threw(ret.out))
                      ~> (~dirty /\ (db # None => file = db)))

C26_Close ==
  [][(ret'.op = "close" /\ ~Threw(ret'.out))
       => /\ ret'.wrote => (ret'.io = "ok" /\ ret'.engine # None)
          /\ db' = None
          /\ timers' = 0 /\ saveTimer' = Null
          /\ ~dirty']_vars

\* C27 (closed, re-entry), as stated: a repository call on a store object
\* that close() has released initializes it again from the backing file,
\* finds both tables, and a read then observes exactly the checkpoints and
\* writes of the image flushed at close.
C27_ClosedReentry ==
  [][(db = None /\ isSetup /\ ret'.op \in RepositoryOps)
       => /\ db' # None /\ db'.schema
          /\ ret'.out # [error |-> NoSuchTable]
          /\ ret'.op \in {"getTuple", "list"} => SameRows(db', file)]_vars

\* C27 holds of a store closed on an image at or under the size ceiling.
C27_ReentryUnderCeiling ==
  [][(/\ db = None /\ isSetup
      /\ file # Absent /\ ~Oversized(file)
      /\ ret'.op \in RepositoryOps)
       => /\ db' # None /\ db'.schema
          /\ ret'.out # [error |-> NoSuchTable]
          /\ ret'.op \in {"getTuple", "list"} => SameRows(db', file)]_vars

NotInitialized == [error |-> "Database not initialized"]

\* C28 (NotInitialized guard), as stated: a step of put, putWrites, getTuple
\* or list that finds the engine released, close() having run at one of the
\* call's awaits, ends the call with the not-initialized error, and no call
\* ends on a statement of an engine that is gone.
C28_NotInitializedGuard ==
  [][(ret'.op \in {"put", "putWrites", "getTuple", "list"} /\ db = None)
       => ret'.out = NotInitialized]_vars

\* The key of the write putWrites(config, writes, taskId) stores for
\* writes[i].
BatchKey(config, writes, taskId, i) ==
  WriteKey(WriteRow(Configurable(config), writes[i], taskId, i - 1))

\* C29 (putWrites replaces by index, does not truncate): after a putWrites
\* that succeeds, for each position of its batch exactly one entry is stored
\* under (thread_id, namespace, checkpoint_id, task_id, index) and it holds
\* the channel and value just written there; no key has two entries; every
\* entry stored before under another key, those of the same task at an index
\* at or past the length of the batch among them, is still stored; and
\* getTuple returns as many pending writes as entries are stored under the
\* checkpoint.
C29_ReplaceNoTruncate ==
  /\ [][(ret'.op = "putWrites" /\ ~Threw(ret'.out))
          => /\ \A i \in DOMAIN ret'.writes :
                  {w \in Rows(db'.writes) :
                     WriteKey(w) = BatchKey(ret'.config, ret'.writes, ret'.taskId, i)}
                    = {WriteRow(Configurable(ret'.config), ret'.writes[i],
                                ret'.taskId, i - 1)}
             /\ \A i, j \in DOMAIN db'.writes :
                  WriteKey(db'.writes[i]) = WriteKey(db'.writes[j]) => i = j
             /\ db # None =>
                  \A w \in Rows(db.writes) :
                    (\A i \in DOMAIN ret'.writes :
                        WriteKey(w) # BatchKey(ret'.config, ret'.writes, ret'.taskId, i))
                      => w \in Rows(db'.writes)]_vars
  /\ [](Returned("getTuple") /\ ret.out.value # None
          => Len(ret.out.value.pendingWrites)
               = Cardinality(WritesUnder(ret.out.value.config)))

\* Task t2 wrote a batch of two and was re-run with a batch of one: getTuple
\* returns the re-run's write at index 0 and, after it, the first run's
\* write at index 1.
C29_Witness ==
  /\ Returned("getTuple") /\ ret.out.value # None
  /\ ret.out.value.pendingWrites
       = << <<"t2", "c1", Object("v")>>, <<"t2", "c1", Object("w")>> >>

(***************************************************************************)
(* SpecLazy: one caller that awaits its calls and consumes list() lazily:  *)
(* between two tuples the generator waits at its yield for the consumer,   *)
(* and the debounce timer armed by the puts before may expire there.       *)
(***************************************************************************)
LazyCaller == "c1"

LazyCalls ==
  {PutCall(Ref("T1", ns, Null), Checkpoint(id, "x"), Metadata("m")) :
     ns \in Namespaces, id \in {"a", "b"}}
  \cup {PutWritesCall(Ref("T1", Null, "a"), <<<<"ch", Object("w1")>>>>, "t1"),
        ReadCall("list", Ref("T1", Null, Null), [before |-> None])}

BeginLazy == \E call \in LazyCalls : Begin(LazyCaller, call)

LoadLazy == Load(LazyCaller, "renamed")

ResumeLazy ==
  \/ PutRun(LazyCaller) \/ PutStore(LazyCaller)
  \/ PutWritesRun(LazyCaller) \/ PutWritesTurn(LazyCaller)
  \/ ListRun(LazyCaller) \/ ListWrites(LazyCaller) \/ ListRows_next(LazyCaller)
  \/ StatementFreed(LazyCaller)

NextLazy == BeginLazy \/ LoadLazy \/ ResumeLazy \/ TimerFire

SpecLazy == Init /\ [][NextLazy]_vars

\* What C30 says list(ref) yields: every checkpoint stored for
\* (ref.thread_id, ref.namespace) and no other, once, in strictly descending
\* checkpoint_id order, each the tuple getTuple returns for it.
ListsAll(value, ref) ==
  /\ Len(value) = Cardinality(StoredIn(ref.thread_id, ref.checkpoint_ns))
  /\ \A i \in DOMAIN value :
       /\ \E row \in StoredIn(ref.thread_id, ref.checkpoint_ns) :
            value[i].config = RowConfig(row)
       /\ value[i] = getTuple(Self, value[i].config).out.value
  /\ \A i, j \in DOMAIN value :
       i < j => TextLess(value[j].config.checkpoint_id, value[i].config.checkpoint_id)

\* C30 (list complete and restartable), as stated: a list(ref) with neither
\* limit nor before, no mutation running while it is consumed, ends having
\* yielded every checkpoint stored for (ref.thread_id, ref.namespace) once,
\* in strictly descending checkpoint_id order, each with the pending writes
\* getTuple attaches; being a function of what is stored, it yields the same
\* sequence when called again with nothing mutated in between.
C30_ListComplete ==
  ret.op = "list" => ~Threw(ret.out) /\ ListsAll(ret.out.value, ret.config)

\* C30 holds of every list() that is consumed to its end without the timer
\* expiring on a dirty store meanwhile.
C30_ListCompleteUndisturbed ==
  Returned("list") => ListsAll(ret.out.value, ret.config)

\* C31 (background write failure): a write that fails in the timer callback
\* rejects no call and changes nothing of the store but the timer: the
\* engine stays held with its rows, dirty stays set and the file is as it
\* was; and a flush() that succeeds or a timer callback that writes, on a
\* dirty store, leaves the file equal to the engine's image and the store
\* clean.
C31_BackgroundFailure ==
  [][/\ (ret'.op = "timer" /\ ret'.io = "EIO")
          => /\ db # None /\ db' = db /\ isSetup' = isSetup
             /\ dirty /\ dirty'
             /\ file' = file
             /\ calls' = calls
     /\ (/\ db # None /\ dirty
         /\ \/ ret'.op = "flush" /\ ~Threw(ret'.out)
            \/ ret'.op = "timer" /\ ret'.io = "ok")
          => file' = db /\ db' = db /\ ~dirty']_vars

\* The write of the timer callback failed on a store holding two
\* checkpoints none of which is in the file: the store is dirty, its engine
\* held, no timer pending.
C31_Witness ==
  /\ ret.op = "timer" /\ ret.io = "EIO"
  /\ db # None /\ dirty /\ timers = 0
  /\ Len(db.checkpoints) = 2
  /\ file # db

(***************************************************************************)
(* SpecRuns: the agent handlers of the main process.  agent:invoke,        *)
(* agent:resume and agent:interrupt register a run for a thread and stream *)
(* the agent; each run ends (stream finished, aborted or failed) in its    *)
(* finally block; agent:cancel and a closed window abort.  A handler runs  *)
(* from its start to its first await in one step.                          *)
(***************************************************************************)
Handlers == {"invoke", "resume", "interrupt"}

StoreUnchanged ==
  UNCHANGED <<db, isSetup, dirty, saveTimer, timers, file, backup, calls, ret>>

\* controller.abort()
Abort(rs, r) == [rs EXCEPT ![r].aborted = TRUE]

\* "const existingController = activeRuns.get(threadId); if (...) { abort();
\* activeRuns.delete(threadId) }" and "activeRuns.set(threadId, new
\* AbortController())", r being the new controller.
Register(rs, threadId, handler, r) ==
  LET existing == activeRuns[threadId]
      rs1 == IF existing # NoRun THEN Abort(rs, existing) ELSE rs
  IN  [rs1 EXCEPT ![r] = [pc |-> "streaming", threadId |-> threadId,
                          handler |-> handler, aborted |-> FALSE]]

\* A handler is invoked for a thread: it runs to its first await.
StartRun(handler, threadId) ==
  \E r \in RunIds :
    /\ runs[r] = Unborn
    /\ \A q \in RunIds : q < r => runs[q] # Unborn
    /\ runs' = Register(runs, threadId, handler, r)
    /\ activeRuns' = [activeRuns EXCEPT ![threadId] = r]
    /\ UNCHANGED <<checkpointers, getters, savers>>
    /\ StoreUnchanged

\* The run's stream ends, is broken off or throws: "finally {
\* activeRuns.delete(threadId) }".
EndRun(r) ==
  /\ runs[r].pc = "streaming"
  /\ runs' = [runs EXCEPT ![r].pc = "ended"]
  /\ activeRuns' = [activeRuns EXCEPT ![runs[r].threadId] = NoRun]
  /\ UNCHANGED <<checkpointers, getters, savers>>
  /\ StoreUnchanged

\* agent:cancel
CancelRun(threadId) ==
  /\ activeRuns[threadId] # NoRun
  /\ runs' = Abort(runs, activeRuns[threadId])
  /\ activeRuns' = [activeRuns EXCEPT ![threadId] = NoRun]
  /\ UNCHANGED <<checkpointers, getters, savers>>
  /\ StoreUnchanged

\* window.once('closed', onWindowClosed) of agent:invoke, until its finally
\* removes the listener.
WindowClosed(r) ==
  /\ runs[r].pc = "streaming" /\ runs[r].handler = "invoke"
  /\ ~runs[r].aborted
  /\ runs' = Abort(runs, r)
  /\ UNCHANGED <<activeRuns, checkpointers, getters, savers>>
  /\ StoreUnchanged

StartRuns == \E handler \in Handlers, threadId \in Threads : StartRun(handler, threadId)

EndRuns == \E r \in RunIds : EndRun(r)

CancelRuns == \E threadId \in Threads : CancelRun(threadId)

WindowCloses == \E r \in RunIds : WindowClosed(r)

NextRuns == StartRuns \/ EndRuns \/ CancelRuns \/ WindowCloses

SpecRuns == Init /\ [][NextRuns]_vars

\* The runs of a thread that are in flight and not aborted.
LiveRuns(threadId) ==
  {r \in RunIds : /\ runs[r].pc = "streaming"
                  /\ runs[r].threadId = threadId
                  /\ ~runs[r].aborted}

\* What holds of the start of a run: the run registered for the thread is
\* aborted before the new one is registered.
RunStartAborts ==
  [][\A threadId \in Threads :
       (activeRuns'[threadId] \notin {NoRun, activeRuns[threadId]}
          /\ activeRuns[threadId] # NoRun)
         => runs'[activeRuns[threadId]].aborted]_vars

\* C32 (at most one writer per thread), as stated: a handler that starts a
\* run for a thread aborts the run registered for it, and at every moment
\* at most one run of a thread is in flight and not aborted.
C32_OneWriterPerThread ==
  /\ RunStartAborts
  /\ [](\A threadId \in Threads : Cardinality(LiveRuns(threadId)) <= 1)

\* C33 (cancellation reaches the live run), as stated: a run in flight and
\* not aborted is the one activeRuns maps its thread to; no finally block of
\* another run removes its entry.
C33_CancelReachesLiveRun ==
  \A r \in RunIds :
    (runs[r].pc = "streaming" /\ ~runs[r].aborted)
      => activeRuns[runs[r].threadId] = r

(***************************************************************************)
(* SpecRegistry: getCheckpointer(threadId) and closeCheckpointer(threadId) *)
(* of the runtime, called by handlers that do not await one another.  Each *)
(* call runs to its await (initialize() of the store it has constructed,   *)
(* close() of the store it has found) in one step and goes on from there   *)
(* in another.                                                             *)
(***************************************************************************)
RegistryUnchanged ==
  UNCHANGED <<db, isSetup, dirty, saveTimer, timers, file, backup, calls,
              activeRuns, runs>>

\* getCheckpointer: "checkpointers.get(threadId)"; a store found is returned,
\* otherwise "new SqlJsSaver(dbPath)" and "await checkpointer.initialize()".
GetCheckpointerBegin(g, threadId) ==
  /\ getters[g] = Resting
  /\ RegistryUnchanged
  /\ IF checkpointers[threadId] # NoSaver
       THEN /\ ret' = [op |-> "getCheckpointer", threadId |-> threadId,
                       out |-> [value |-> checkpointers[threadId]]]
            /\ UNCHANGED <<checkpointers, getters, savers>>
       ELSE \E i \in SaverIds :
              /\ savers[i] = Unmade
              /\ \A j \in SaverIds : j < i => savers[j] # Unmade
              /\ savers' = [savers EXCEPT ![i] = [threadId |-> threadId,
                                                  at |-> "constructed"]]
              /\ getters' = [getters EXCEPT ![g] =
                               [op |-> "getCheckpointer", pc |-> "initializing",
                                threadId |-> threadId, checkpointer |-> i]]
              /\ ret' = [op |-> "pending"]
              /\ UNCHANGED checkpointers

\* getCheckpointer after its await: "checkpointers.set(threadId,
\* checkpointer); return checkpointer".
GetCheckpointerEnd(g) ==
  /\ getters[g].op = "getCheckpointer" /\ getters[g].pc = "initializing"
  /\ RegistryUnchanged
  /\ savers' = [savers EXCEPT ![getters[g].checkpointer].at =
                  IF @ = "constructed" THEN "initialized" ELSE @]
  /\ checkpointers' = [checkpointers EXCEPT ![getters[g].threadId] =
                         getters[g].checkpointer]
  /\ getters' = [getters EXCEPT ![g] = Resting]
  /\ ret' = [op |-> "getCheckpointer", threadId |-> getters[g].threadId,
             out |-> [value |-> getters[g].checkpointer]]

\* closeCheckpointer: "checkpointers.get(threadId)"; with a store found,
\* "await checkpointer.close()".
CloseCheckpointerBegin(g, threadId) ==
  /\ getters[g] = Resting
  /\ RegistryUnchanged
  /\ UNCHANGED <<checkpointers, savers>>
  /\ IF checkpointers[threadId] = NoSaver
       THEN /\ ret' = [op |-> "closeCheckpointer", threadId |-> threadId,
                       out |-> [value |-> None]]
            /\ UNCHANGED getters
       ELSE /\ getters' = [getters EXCEPT ![g] =
                             [op |-> "closeCheckpointer", pc |-> "closing",
                              threadId |-> threadId,
                              checkpointer |-> checkpointers[threadId]]]
            /\ ret' = [op |-> "pending"]

\* closeCheckpointer after its await: "checkpointers.delete(threadId)".
CloseCheckpointerEnd(g) ==
  /\ getters[g].op = "closeCheckpointer" /\ getters[g].pc = "closing"
  /\ RegistryUnchanged
  /\ savers' = [savers EXCEPT ![getters[g].checkpointer].at = "closed"]
  /\ checkpointers' = [checkpointers EXCEPT ![getters[g].threadId] = NoSaver]
  /\ getters' = [getters EXCEPT ![g] = Resting]
  /\ ret' = [op |-> "closeCheckpointer", threadId |-> getters[g].threadId,
             out |-> [value |-> None]]

GetBegins ==
  \E g \in Getters, threadId \in Threads : GetCheckpointerBegin(g, threadId)

GetEnds == \E g \in Getters : GetCheckpointerEnd(g)

CloseBegins ==
  \E g \in Getters, threadId \in Threads : CloseCheckpointerBegin(g, threadId)

CloseEnds == \E g \in Getters : CloseCheckpointerEnd(g)

NextRegistry == GetBegins \/ GetEnds \/ CloseBegins \/ CloseEnds

SpecRegistry == Init /\ [][NextRegistry]_vars

\* The stores constructed for a thread and not closed.
OpenSavers(threadId) ==
  {i \in SaverIds : /\ savers[i].threadId = threadId
                    /\ savers[i].at \in {"constructed", "initialized"}}

\* C34 (one store instance per thread), as stated: at no moment are two
\* stores constructed for the backing file of one thread and not closed, and
\* the store a getCheckpointer(threadId) returns is that one, the one
\* checkpointers holds for the thread.
C34_OneStorePerThread ==
  /\ \A threadId \in Threads : Cardinality(OpenSavers(threadId)) <= 1
  /\ ret.op = "getCheckpointer"
       => /\ checkpointers[ret.threadId] = ret.out.value
          /\ OpenSavers(ret.threadId) = {ret.out.value}

\* C35 (schema invariant), as stated: whenever the engine handle is held,
\* initialize() having returned, the checkpoints and the writes tables exist
\* in the engine.
C35_SchemaInvariant == db # None => db.schema

\* C36 (clean means persisted), as stated: in every state where the engine
\* handle is held and the dirty flag is false, the backing file exists and its
\* image holds the rows the engine holds in checkpoints and in writes.
C36_CleanMeansPersisted ==
  (db # None /\ ~dirty) => (file # Absent /\ SameRows(file, db))

\* C37 (dirty implies a scheduled flush), as stated: in every state where the
\* engine handle is held and the dirty flag is true, a flush() or a timer
\* write that failed included, a debounce timeout is pending.
C37_DirtyHasTimer == (db # None /\ dirty) => timers > 0

\* What the code keeps of C37: a dirty engine has a timeout pending unless a
\* write of the image has failed, or flush() has found the engine dirty,
\* since the store was last marked dirty.
C37_DirtyHasTimerUntilFailure ==
  [][(/\ db' # None /\ dirty'
      /\ ~(ret'.op \in {"flush", "close", "timer"} /\ ret'.io = "EIO")
      /\ (db # None /\ dirty) => timers > 0)
        => timers' > 0]_vars

(***************************************************************************)
(* SpecReads: the life of SpecLife with list() next to getTuple(): reads   *)
(* of a store that is clean or dirty, with or without a timeout pending,   *)
(* before and after flush() and close().                                   *)
(***************************************************************************)
ListR ==
  \E fs \in FsOutcomes : List(fs, Ref("T1", Null, Null), [before |-> None])

NextReads == NextLife \/ ListR

SpecReads == Init /\ [][NextReads]_vars

\* C38 (reads have no effect): a getTuple or a list called on a store that
\* holds its engine leaves the checkpoints and the writes tables, the dirty
\* flag, the timer handle and the pending timeouts as they were, and the
\* backing file is not written.
C38_ReadsNoEffect ==
  [][(db # None /\ ret'.op \in {"getTuple", "list"})
       => /\ db' = db
          /\ dirty' = dirty
          /\ saveTimer' = saveTimer /\ timers' = timers
          /\ file' = file /\ backup' = backup]_vars

\* list() has returned the stored checkpoints of a store that was dirty with
\* its timeout pending, over a backing file written earlier.
C38_Witness ==
  /\ ret.op = "list" /\ ~Threw(ret.out) /\ Len(ret.out.value) >= 1
  /\ db # None /\ dirty /\ saveTimer = "armed" /\ timers > 0
  /\ file # Absent /\ ~SameRows(file, db)

\* The rows of a table of the engine, none while no engine is held.
TableRows(e, table) == IF e = None THEN <<>> ELSE e[table]

\* C39 (table frames): put leaves every row of the writes table as it was,
\* the pending writes attached to a checkpoint key it replaces included, and
\* putWrites leaves every row of the checkpoints table as it was.
C39_TableFrames ==
  [][/\ ret'.op = "put" => TableRows(db', "writes") = TableRows(db, "writes")
     /\ ret'.op = "putWrites"
          => TableRows(db', "checkpoints") = TableRows(db, "checkpoints")]_vars

\* put has replaced a stored checkpoint that has pending writes attached,
\* and the writes are still there.
C39_Witness ==
  /\ Returned("put") /\ ret.replaced
  /\ \E w \in Rows(db.writes) :
        <<w.thread_id, w.checkpoint_ns, w.checkpoint_id>> =
          CheckpointKey(CheckpointRow(Configurable(ret.config),
                                      ret.checkpoint, ret.metadata))

====
